---- MODULE Spec2Model ----
(***************************************************************************)
(* SQL-ChatbotHY: the POST /api/sql-chat handler of server/routes.ts       *)
(* (topic gating, query generation, cleaning, validation, the bounded      *)
(* repair loop and the engine dispatch), with the pure helpers it calls.   *)
(*                                                                         *)
(* Texts.  A JavaScript string is modelled as a sequence of atoms.  An     *)
(* atom stands for a run of characters of one class: a run of word         *)
(* characters [A-Za-z0-9_] ("select", "dataset", "_", "1"), a run of       *)
(* white space (" ", "\n"), or other characters ("(", ";", the code fence, a Hangul *)
(* word).  Adjacent word atoms form one longer word ("sales","force" is    *)
(* the word salesforce), so substring search, \b word boundaries, trim and *)
(* the SELECT regex are computed on the sequence exactly as the code       *)
(* computes them on characters.  The alphabet is chosen so that every      *)
(* pattern the code looks for is an atom or a concatenation of atoms and   *)
(* occurs nowhere inside an atom.                                          *)
(***************************************************************************)
EXTENDS Integers, Sequences, FiniteSets, TLC

\* ------------------------------------------------------------------------
\* Character classes and case folding
\* ------------------------------------------------------------------------

\* White-space atoms (\s of the regexes, and what String.trim removes).
SpaceAtoms == {" ", "\n"}

\* Atoms that are neither white space nor word characters: punctuation, the
\* markdown code fence (three backquotes, written "<fence>") and
\* Hangul words (the \w and \b are ASCII-only without the u flag).
\* A Hangul word is written "#" followed by its romanisation:
\*   #maechul = U+B9E4 U+CD9C (revenue), #chong = U+CD1D (total),
\*   #jeonche (whole), #kategori (category), #byeol (per), #gajang (most),
\*   #bissan (expensive), #jeoryeom (cheap), #pallin (sold), #jepum (product),
\*   #myeot (how many), #su (number), #deiteoset (dataset), #eoprodeu
\*   (upload), #eksel (excel), #seupeuredeusiteu (spreadsheet), #memo (memo).
HangulAtoms ==
  {"#maechul", "#chong", "#jeonche", "#kategori", "#byeol", "#gajang",
   "#bissan", "#jeoryeom", "#pallin", "#jepum", "#myeot", "#su",
   "#deiteoset", "#eoprodeu", "#eksel", "#seupeuredeusiteu", "#memo"}

PunctuationAtoms ==
  {"(", ")", ",", "*", ".", "=", "\"", ";", "<fence>", "?", "%", ":"}

OtherAtoms == PunctuationAtoms \cup HangulAtoms

\* \w : an atom made of [A-Za-z0-9_].
IsWordAtom(a) == a \notin SpaceAtoms /\ a \notin OtherAtoms

\* The atoms of the alphabet that contain upper-case letters, with their
\* String.toLowerCase image.
UpperPairs ==
  {<<"SELECT", "select">>, <<"Select", "select">>, <<"FROM", "from">>,
   <<"WHERE", "where">>, <<"LIMIT", "limit">>, <<"ORDER", "order">>,
   <<"BY", "by">>, <<"DESC", "desc">>, <<"ASC", "asc">>, <<"SUM", "sum">>,
   <<"CAST", "cast">>, <<"AS", "as">>, <<"DECIMAL", "decimal">>,
   <<"JOIN", "join">>, <<"ON", "on">>, <<"GROUP", "group">>,
   <<"COUNT", "count">>, <<"DROP", "drop">>, <<"TABLE", "table">>,
   <<"CSV", "csv">>, <<"Sales", "sales">>, <<"SALES", "sales">>,
   <<"Price", "price">>,
   <<"Here", "here">>, <<"SQL", "sql">>, <<"DATASET", "dataset">>}

LowerMap ==
  [a \in {p[1] : p \in UpperPairs} |->
     (CHOOSE p \in UpperPairs : p[1] = a)[2]]

LowerAtom(a) == IF a \in DOMAIN LowerMap THEN LowerMap[a] ELSE a

\* String.prototype.toLowerCase
toLowerCase(t) == [i \in DOMAIN t |-> LowerAtom(t[i])]

\* ------------------------------------------------------------------------
\* String primitives
\* ------------------------------------------------------------------------

\* The value the handler tests with if (x) and !x: null or the empty string.
Null == <<>>

\* t occurs in s starting after position k (0-based offset).
OccursAt(s, t, k) ==
  /\ k + Len(t) <= Len(s)
  /\ \A j \in 1..Len(t) : s[k + j] = t[j]

\* The same under the i flag of a regular expression.
OccursAtIgnoringCase(s, t, k) ==
  /\ k + Len(t) <= Len(s)
  /\ \A j \in 1..Len(t) : LowerAtom(s[k + j]) = LowerAtom(t[j])

\* String.prototype.includes
includes(s, t) == \E k \in 0..Len(s) : OccursAt(s, t, k)

\* \b between position k and k+1 of s (k = 0: start, k = Len(s): end).
WordBoundary(s, k) ==
  LET before == k >= 1 /\ IsWordAtom(s[k])
      after  == k < Len(s) /\ IsWordAtom(s[k + 1])
  IN  before # after

\* new RegExp("\\b" + escapeRegExp(t) + "\\b", "i").test(s): escapeRegExp makes
\* the pattern match t literally; the i flag folds case on both sides.
wholeWordTest(s, t) ==
  \E k \in 0..Len(s) :
    /\ OccursAtIgnoringCase(s, t, k)
    /\ WordBoundary(s, k)
    /\ WordBoundary(s, k + Len(t))

\* new RegExp(QUOTE + escapeRegExp(t) + QUOTE, "i").test(s)
quotedTest(s, t) ==
  \E k \in 0..Len(s) : OccursAtIgnoringCase(s, <<"\"">> \o t \o <<"\"">>, k)

RECURSIVE trimStart(_)
trimStart(s) ==
  IF s # <<>> /\ s[1] \in SpaceAtoms THEN trimStart(Tail(s)) ELSE s

RECURSIVE trimEnd(_)
trimEnd(s) ==
  IF s # <<>> /\ s[Len(s)] \in SpaceAtoms
  THEN trimEnd(SubSeq(s, 1, Len(s) - 1))
  ELSE s

\* String.prototype.trim
trim(s) == trimEnd(trimStart(s))

\* s.replace(/<fence>sql/gi, ""): every fence directly followed by "sql".
RECURSIVE stripSqlFences(_)
stripSqlFences(s) ==
  IF s = <<>> THEN <<>>
  ELSE IF Len(s) >= 2 /\ s[1] = "<fence>" /\ LowerAtom(s[2]) = "sql"
       THEN stripSqlFences(SubSeq(s, 3, Len(s)))
       ELSE <<s[1]>> \o stripSqlFences(Tail(s))

\* s.replace(/<fence>/g, "")
stripFences(s) == SelectSeq(s, LAMBDA a : a # "<fence>")

\* Index of the first atom matching /SELECT/i, 0 when there is none.
firstSelect(s) ==
  IF \E i \in 1..Len(s) : LowerAtom(s[i]) = "select"
  THEN CHOOSE i \in 1..Len(s) :
         /\ LowerAtom(s[i]) = "select"
         /\ \A j \in 1..(i - 1) : LowerAtom(s[j]) # "select"
  ELSE 0

\* s.match(/SELECT[\s\S]*?(?:;|$)/i): the lazy match runs from the first
\* SELECT through the first ";" after it, or to the end of the string.
\* Null when there is no match.
selectMatch(s) ==
  LET i == firstSelect(s)
  IN  IF i = 0 THEN Null
      ELSE IF \E j \in (i + 1)..Len(s) : s[j] = ";"
           THEN SubSeq(s, i, CHOOSE j \in (i + 1)..Len(s) :
                               /\ s[j] = ";"
                               /\ \A m \in (i + 1)..(j - 1) : s[m] # ";")
           ELSE SubSeq(s, i, Len(s))

\* m.replace(/;$/, "")
dropFinalTerminator(m) ==
  IF m # <<>> /\ m[Len(m)] = ";" THEN SubSeq(m, 1, Len(m) - 1) ELSE m

\* ------------------------------------------------------------------------
\* Query cleaning and the deterministic fallback queries
\* ------------------------------------------------------------------------

\* cleanSql: strip the code fences, trim, keep the first SELECT run without
\* its final terminator; with no SELECT run the stripped text is returned.
cleanSql(rawSql) ==
  LET cleaned  == trim(stripFences(stripSqlFences(rawSql)))
      sqlMatch == selectMatch(cleaned)
  IN  IF sqlMatch # Null THEN dropFinalTerminator(sqlMatch) ELSE cleaned

\* The text fixSqlWithLLM makes of the provider's content when the call
\* returns (the try branch).
fixedSqlFromContent(content) ==
  LET fixedSql == trim(stripFences(stripSqlFences(content)))
      sqlMatch == selectMatch(fixedSql)
  IN  IF sqlMatch # Null THEN dropFinalTerminator(sqlMatch) ELSE fixedSql

\* generatedSql.toLowerCase().startsWith("select")
startsWithSelect(sqlText) ==
  sqlText # <<>> /\ LowerAtom(sqlText[1]) = "select"

\* The validity check of the handler:
\*   !generatedSql || !generatedSql.toLowerCase().startsWith("select")
isInvalidSql(sqlText) == sqlText = Null \/ ~startsWithSelect(sqlText)

\* SELECT SUM(CAST(total_price AS DECIMAL)) as total_sales FROM sales
SQL_TOTAL_SALES ==
  <<"SELECT", " ", "SUM", "(", "CAST", "(", "total", "_", "price", " ",
    "AS", " ", "DECIMAL", ")", ")", " ", "as", " ", "total", "_", "sales",
    " ", "FROM", " ", "sales">>

\* SELECT p.name, s.quantity, s.total_price, s.sale_date FROM sales s JOIN
\*   products p ON s.product_id = p.id ORDER BY s.sale_date DESC LIMIT 10
SQL_RECENT_SALES ==
  <<"SELECT", " ", "p", ".", "name", ",", " ", "s", ".", "quantity", ",",
    " ", "s", ".", "total", "_", "price", ",", " ", "s", ".", "sale", "_",
    "date", " ", "FROM", " ", "sales", " ", "s", " ", "JOIN", " ",
    "product", "s", " ", "p", " ", "ON", " ", "s", ".", "product", "_",
    "id", " ", "=", " ", "p", ".", "id", " ", "ORDER", " ", "BY", " ", "s",
    ".", "sale", "_", "date", " ", "DESC", " ", "LIMIT", " ", "10">>

\* SELECT category, COUNT(*) as count FROM products GROUP BY category
\*   ORDER BY count DESC
SQL_CATEGORY_COUNT ==
  <<"SELECT", " ", "category", ",", " ", "COUNT", "(", "*", ")", " ", "as",
    " ", "count", " ", "FROM", " ", "product", "s", " ", "GROUP", " ",
    "BY", " ", "category", " ", "ORDER", " ", "BY", " ", "count", " ",
    "DESC">>

\* SELECT * FROM products ORDER BY CAST(price AS DECIMAL) DESC LIMIT 5
SQL_MOST_EXPENSIVE ==
  <<"SELECT", " ", "*", " ", "FROM", " ", "product", "s", " ", "ORDER",
    " ", "BY", " ", "CAST", "(", "price", " ", "AS", " ", "DECIMAL", ")",
    " ", "DESC", " ", "LIMIT", " ", "5">>

\* SELECT * FROM products ORDER BY CAST(price AS DECIMAL) ASC LIMIT 5
SQL_CHEAPEST ==
  <<"SELECT", " ", "*", " ", "FROM", " ", "product", "s", " ", "ORDER",
    " ", "BY", " ", "CAST", "(", "price", " ", "AS", " ", "DECIMAL", ")",
    " ", "ASC", " ", "LIMIT", " ", "5">>

\* SELECT p.name, SUM(s.quantity) as total_sold FROM products p JOIN sales
\*   s ON p.id = s.product_id GROUP BY p.id, p.name ORDER BY total_sold DESC LIMIT 5
SQL_TOP_SOLD ==
  <<"SELECT", " ", "p", ".", "name", ",", " ", "SUM", "(", "s", ".",
    "quantity", ")", " ", "as", " ", "total", "_", "sold", " ", "FROM",
    " ", "product", "s", " ", "p", " ", "JOIN", " ", "sales", " ", "s",
    " ", "ON", " ", "p", ".", "id", " ", "=", " ", "s", ".", "product",
    "_", "id", " ", "GROUP", " ", "BY", " ", "p", ".", "id", ",", " ", "p",
    ".", "name", " ", "ORDER", " ", "BY", " ", "total", "_", "sold", " ",
    "DESC", " ", "LIMIT", " ", "5">>

\* SELECT COUNT(*) as total_products FROM products
SQL_PRODUCT_COUNT ==
  <<"SELECT", " ", "COUNT", "(", "*", ")", " ", "as", " ", "total", "_",
    "product", "s", " ", "FROM", " ", "product", "s">>

\* SELECT * FROM products ORDER BY CAST(price AS DECIMAL) DESC LIMIT 10
SQL_PRODUCTS_BY_PRICE ==
  <<"SELECT", " ", "*", " ", "FROM", " ", "product", "s", " ", "ORDER",
    " ", "BY", " ", "CAST", "(", "price", " ", "AS", " ", "DECIMAL", ")",
    " ", "DESC", " ", "LIMIT", " ", "10">>

\* SELECT * FROM products ORDER BY id LIMIT 10
SQL_DEFAULT ==
  <<"SELECT", " ", "*", " ", "FROM", " ", "product", "s", " ", "ORDER",
    " ", "BY", " ", "id", " ", "LIMIT", " ", "10">>

\* getFallbackSql: the canned query chosen by keywords of the question.
getFallbackSql(message) ==
  LET lowerMessage == toLowerCase(message)
      has(k) == includes(lowerMessage, <<k>>)
  IN  IF has("#maechul") \/ has("revenue") \/ has("sales")
      THEN IF has("#chong") \/ has("#jeonche") \/ has("total")
           THEN SQL_TOTAL_SALES
           ELSE SQL_RECENT_SALES
      ELSE IF /\ has("#kategori") \/ has("category")
              /\ has("#byeol") \/ has("group")
      THEN SQL_CATEGORY_COUNT
      ELSE IF /\ has("#gajang") \/ has("top") \/ has("best")
              /\ has("#bissan") \/ has("expensive")
      THEN SQL_MOST_EXPENSIVE
      ELSE IF /\ has("#gajang") \/ has("top") \/ has("best")
              /\ has("#jeoryeom") \/ has("cheap")
      THEN SQL_CHEAPEST
      ELSE IF /\ has("#gajang") \/ has("top") \/ has("best")
              /\ has("#pallin") \/ has("sold")
      THEN SQL_TOP_SOLD
      ELSE IF has("#jepum") \/ has("product")
      THEN IF has("#myeot") \/ has("count") \/ has("#su")
           THEN SQL_PRODUCT_COUNT
           ELSE SQL_PRODUCTS_BY_PRICE
      ELSE SQL_DEFAULT

\* SELECT * FROM "<table>" LIMIT 10, the query substituted when exactly one
\* analytic table is registered.
singleTableSql(table) ==
  <<"SELECT", " ", "*", " ", "FROM", " ", "\"">> \o table
    \o <<"\"", " ", "LIMIT", " ", "10">>

\* ------------------------------------------------------------------------
\* Topic gating and dialect routing
\* ------------------------------------------------------------------------

\* The keyword hints of isDatasetQuestion:
\*   dataset, #deiteoset, csv, #eoprodeu, #eksel, #seupeuredeusiteu
datasetHints ==
  {"dataset", "#deiteoset", "csv", "#eoprodeu", "#eksel",
   "#seupeuredeusiteu"}

isDatasetQuestion(message, datasetNames) ==
  IF Len(datasetNames) = 0 THEN FALSE
  ELSE LET lowered == toLowerCase(message)
       IN  \/ \E hint \in datasetHints : includes(lowered, <<hint>>)
           \/ \E i \in 1..Len(datasetNames) :
                LET name == datasetNames[i]
                IN  /\ name # Null
                    /\ \/ wholeWordTest(lowered, toLowerCase(name))
                       \/ includes(lowered, toLowerCase(name))

\* The loop of pickDuckdbTableFromSql over the known tables: the first
\* table the text names as a whole word or as a quoted identifier.
knownTableMatches(sqlText, duckdbTables) ==
  {i \in 1..Len(duckdbTables) :
     \/ wholeWordTest(sqlText, duckdbTables[i])
     \/ quotedTest(sqlText, duckdbTables[i])}

\* End of the run of word atoms that starts at position i of s.
RECURSIVE wordRunEnd(_, _)
wordRunEnd(s, i) ==
  IF i < Len(s) /\ IsWordAtom(s[i + 1]) THEN wordRunEnd(s, i + 1) ELSE i

\* sqlText.match(/\bdataset_[a-z0-9_]+\b/i): the positions where a word
\* starts with dataset_ and goes on for at least one more word character.
generatedNameStarts(sqlText) ==
  {i \in 1..Len(sqlText) :
     /\ WordBoundary(sqlText, i - 1)
     /\ i + 2 <= Len(sqlText)
     /\ LowerAtom(sqlText[i]) = "dataset"
     /\ sqlText[i + 1] = "_"
     /\ IsWordAtom(sqlText[i + 2])}

Min(S) == CHOOSE x \in S : \A y \in S : x <= y

pickDuckdbTableFromSql(sqlText, duckdbTables) ==
  IF Len(duckdbTables) = 0 THEN Null
  ELSE IF knownTableMatches(sqlText, duckdbTables) # {}
  THEN duckdbTables[Min(knownTableMatches(sqlText, duckdbTables))]
  ELSE IF generatedNameStarts(sqlText) # {}
  THEN LET i == Min(generatedNameStarts(sqlText))
       IN  SubSeq(sqlText, i, wordRunEnd(sqlText, i))
  ELSE Null

\* ------------------------------------------------------------------------
\* Schema introspection (the table and name lists of buildDynamicSchema)
\* ------------------------------------------------------------------------

\* The decimal digits, for the index in the default column name.
Digits == <<"0", "1", "2", "3", "4", "5", "6", "7", "8", "9">>

\* .replace(/_+/g, "_")
RECURSIVE collapseUnderscores(_)
collapseUnderscores(s) ==
  IF Len(s) < 2 THEN s
  ELSE IF s[1] = "_" /\ s[2] = "_" THEN collapseUnderscores(Tail(s))
  ELSE <<s[1]>> \o collapseUnderscores(Tail(s))

\* .replace(/^_|_$/g, "")
stripUnderscoreEnds(s) ==
  LET a == IF s # <<>> /\ s[1] = "_" THEN Tail(s) ELSE s
  IN  IF a # <<>> /\ a[Len(a)] = "_" THEN SubSeq(a, 1, Len(a) - 1) ELSE a

\* sanitizeDuckdbColumnName of routes.ts: every character that is not a
\* Hangul syllable or jamo, an ASCII letter of either case, a digit or an
\* underscore becomes an underscore; the default name carries the index.
sanitizeDuckdbColumnName(name, index) ==
  LET replaced == [i \in DOMAIN name |->
                     IF IsWordAtom(name[i]) \/ name[i] \in HangulAtoms
                     THEN name[i] ELSE "_"]
      sanitized == stripUnderscoreEnds(collapseUnderscores(replaced))
  IN  IF sanitized # <<>> THEN sanitized
      ELSE <<"col", "_", Digits[index + 1]>>

\* sanitizeColumnName of duckdb-service.ts, which names the columns of the
\* table createDatasetTable creates: lower-case first, then every character
\* that is not a lower-case ASCII letter, a digit or an underscore becomes
\* an underscore; the default name is col.
sanitizeColumnName(name) ==
  LET lowered == toLowerCase(name)
      replaced == [i \in DOMAIN lowered |->
                     IF IsWordAtom(lowered[i]) THEN lowered[i] ELSE "_"]
      sanitized == stripUnderscoreEnds(collapseUnderscores(replaced))
  IN  IF sanitized # <<>> THEN sanitized ELSE <<"col">>

\* The name of the first column of type number, written as the schema
\* writes it; Null when there is none.
RECURSIVE numericColumnName(_, _)
numericColumnName(columns, idx) ==
  IF idx >= Len(columns) THEN Null
  ELSE IF columns[idx + 1].type = "number"
  THEN sanitizeDuckdbColumnName(columns[idx + 1].name, idx)
  ELSE numericColumnName(columns, idx + 1)

\* A piece of the schema text: the heading of the uploaded datasets, the
\* description of one dataset (with the column identifiers and the columns
\* of the example queries as written), or a closing note.
SchemaPiece(kind) ==
  [kind |-> kind, id |-> 0, table |-> Null, name |-> Null, columns |-> <<>>,
   firstColumnName |-> Null, numericColumnName |-> Null]

\* The description of a dataset stored in the analytic engine.
describeDuckdb(dataset, columns) ==
  [SchemaPiece("duckdb") EXCEPT
     !.id = dataset.id, !.table = dataset.duckdbTable, !.name = dataset.name,
     !.columns = [i \in DOMAIN columns |->
                    sanitizeDuckdbColumnName(columns[i].name, i - 1)],
     !.firstColumnName =
        IF columns # <<>> THEN sanitizeDuckdbColumnName(columns[1].name, 0)
        ELSE <<"column">>,
     !.numericColumnName = numericColumnName(columns, 0)]

\* The description of a structured dataset stored in the relational engine.
describeStructured(dataset, columns) ==
  [SchemaPiece("structured") EXCEPT
     !.id = dataset.id, !.name = dataset.name,
     !.columns = [i \in DOMAIN columns |-> columns[i].name],
     !.firstColumnName =
        IF columns # <<>> /\ columns[1].name # Null THEN columns[1].name
        ELSE <<"column">>]

\* The description of an unstructured dataset.
describeUnstructured(dataset) ==
  [SchemaPiece("unstructured") EXCEPT !.id = dataset.id,
                                      !.name = dataset.name]

\* The loop over the rows of the datasets table.  JSON.parse of a malformed
\* columnInfo throws out of the loop into the catch of buildDynamicSchema,
\* which keeps what was pushed and written so far.
RECURSIVE schemaLoop(_, _, _, _, _)
schemaLoop(uploadedDatasets, i, schema, duckdbTables, datasetNames) ==
  IF i > Len(uploadedDatasets)
  THEN LET hasStructuredData ==
             \E k \in DOMAIN schema : schema[k].kind = "structured"
           hasDuckdbData ==
             \E k \in DOMAIN schema : schema[k].kind = "duckdb"
       IN  [schema |-> schema
                        \o (IF hasStructuredData
                            THEN <<SchemaPiece("note structured")>>
                            ELSE <<>>)
                        \o (IF hasDuckdbData
                            THEN <<SchemaPiece("note duckdb")>> ELSE <<>>),
            duckdbTables |-> duckdbTables, datasetNames |-> datasetNames]
  ELSE LET dataset == uploadedDatasets[i]
       IN  IF dataset.dataType = "structured" /\ dataset.columnInfo # "null"
           THEN LET names == IF dataset.name # Null
                             THEN Append(datasetNames, dataset.name)
                             ELSE datasetNames
                IN  IF dataset.columnInfo = "malformed"
                    THEN [schema |-> schema, duckdbTables |-> duckdbTables,
                          datasetNames |-> names]
                    ELSE IF dataset.duckdbTable # Null
                    THEN schemaLoop(uploadedDatasets, i + 1,
                                    Append(schema,
                                           describeDuckdb(dataset,
                                                          dataset.columns)),
                                    Append(duckdbTables, dataset.duckdbTable),
                                    names)
                    ELSE schemaLoop(uploadedDatasets, i + 1,
                                    Append(schema,
                                           describeStructured(dataset,
                                                              dataset.columns)),
                                    duckdbTables, names)
           ELSE IF dataset.dataType = "unstructured"
           THEN schemaLoop(uploadedDatasets, i + 1,
                           Append(schema, describeUnstructured(dataset)),
                           duckdbTables, datasetNames)
           ELSE schemaLoop(uploadedDatasets, i + 1, schema, duckdbTables,
                           datasetNames)

\* buildDynamicSchema: selectOk is FALSE when db.select() rejects, which the
\* catch turns into the built-in schema and empty lists.  The built-in
\* schema text, the same in every request, is left out of the schema.
buildDynamicSchema(uploadedDatasets, selectOk) ==
  IF selectOk /\ Len(uploadedDatasets) > 0
  THEN schemaLoop(uploadedDatasets, 1, <<SchemaPiece("heading")>>, <<>>,
                  <<>>)
  ELSE [schema |-> <<>>, duckdbTables |-> <<>>, datasetNames |-> <<>>]

\* ------------------------------------------------------------------------
\* Inputs of a request: the registered datasets, the question, what the
\* generative provider answers and what the engines answer
\* ------------------------------------------------------------------------

\* Rows of the datasets table.  columnInfo is "valid" (parseable JSON),
\* "malformed" (JSON.parse throws) or "null"; duckdbTable is the name
\* sanitizeTableName gave the analytic table, Null for a dataset stored in
\* the relational engine.  columns is what JSON.parse of a valid columnInfo
\* yields (the headers of the uploaded file with their inferred types):
\*   Sales: Price, unit price, #maechul;  #memo: #maechul;  stock: %, qty.
\* The columns of an analytic dataset have distinct names in the engine.
DatasetPool ==
  {[id |-> 1, name |-> <<"Sales">>, dataType |-> "structured",
    columnInfo |-> "valid",
    duckdbTable |-> <<"dataset", "_", "1", "_", "sales">>,
    columns |-> <<[name |-> <<"Price">>, type |-> "number"],
                  [name |-> <<"unit", " ", "price">>, type |-> "number"],
                  [name |-> <<"#maechul">>, type |-> "text"]>>],
   [id |-> 2, name |-> <<"#memo">>, dataType |-> "structured",
    columnInfo |-> "valid", duckdbTable |-> Null,
    columns |-> <<[name |-> <<"#maechul">>, type |-> "text"]>>],
   [id |-> 3, name |-> <<"stock">>, dataType |-> "structured",
    columnInfo |-> "valid",
    duckdbTable |-> <<"dataset", "_", "3", "_", "stock">>,
    columns |-> <<[name |-> <<"%">>, type |-> "text"],
                  [name |-> <<"qty">>, type |-> "number"]>>],
   [id |-> 4, name |-> <<"notes">>, dataType |-> "unstructured",
    columnInfo |-> "null", duckdbTable |-> Null, columns |-> <<>>],
   [id |-> 5, name |-> <<"broken">>, dataType |-> "structured",
    columnInfo |-> "malformed",
    duckdbTable |-> <<"dataset", "_", "5", "_", "broken">>,
    columns |-> <<>>]}

\* At most this many datasets are registered.
MaxDatasets == 2

\* The contents of the datasets table: rows of the pool, in any order.
DatasetConfigs ==
  {ds \in UNION {[1..n -> DatasetPool] : n \in 0..MaxDatasets} :
     \A i, j \in 1..Len(ds) : i # j => ds[i] # ds[j]}

\* total products count
TOTAL_PRODUCTS_COUNT ==
  <<"total", " ", "product", "s", " ", "count">>

\* The questions asked.
Messages ==
  {<<"show", " ", "CSV", " ", "product", " ", "count">>,
   TOTAL_PRODUCTS_COUNT,
   <<"total", " ", "sales">>,
   <<"sales", "force", " ", "top", " ", "expensive">>,
   <<"hello">>,
   <<"#memo", " ", "#jepum", " ", "#myeot", "?">>}

\* Contents the generative provider returns.
\* SELECT * FROM products
GEN_PRODUCTS ==
  <<"SELECT", " ", "*", " ", "FROM", " ", "product", "s">>

\* <fence>sql\nselect * from "dataset_1_sales" ;\n<fence>
GEN_FENCED_SALES ==
  <<"<fence>", "sql", "\n", "select", " ", "*", " ", "from", " ", "\"",
    "dataset", "_", "1", "_", "sales", "\"", " ", ";", "\n", "<fence>">>

\* sorry
GEN_PROSE ==
  <<"sorry">>

\* SELECT data FROM structured_data WHERE dataset_id = 2
GEN_DATASET_ID ==
  <<"SELECT", " ", "data", " ", "FROM", " ", "structured", "_", "data",
    " ", "WHERE", " ", "dataset", "_", "id", " ", "=", " ", "2">>

\* SELECT * FROM dataset_9_old
GEN_UNKNOWN_TABLE ==
  <<"SELECT", " ", "*", " ", "FROM", " ", "dataset", "_", "9", "_", "old">>

\* Here: SELECT COUNT(*) FROM products; done
FIX_COUNT ==
  <<"Here", ":", " ", "SELECT", " ", "COUNT", "(", "*", ")", " ", "FROM",
    " ", "product", "s", ";", " ", "done">>

\* DROP TABLE products
FIX_DROP ==
  <<"DROP", " ", "TABLE", " ", "product", "s">>

\* SELECT * FROM "dataset_1_sales"
FIX_SALES ==
  <<"SELECT", " ", "*", " ", "FROM", " ", "\"", "dataset", "_", "1", "_",
    "sales", "\"">>

\* What the provider returns as content to the generation call; <<>> is an
\* empty or missing content.
GeneratedContents ==
  {GEN_PRODUCTS, GEN_FENCED_SALES, GEN_PROSE, GEN_DATASET_ID,
   GEN_UNKNOWN_TABLE, <<>>}

\* What the provider returns as content to a repair call.
FixContents == {FIX_COUNT, FIX_DROP, FIX_SALES, GEN_PRODUCTS, <<>>}

\* The outcomes of a repair call: a content, or the call rejects.
FixOutcomes ==
  {[throws |-> FALSE, content |-> c] : c \in FixContents}
    \cup {[throws |-> TRUE, content |-> <<>>]}

\* What the provider returns as content to the general-answer and summary
\* calls; "" is an empty or missing content.
AnswerContents == {"", "an answer"}

\* A provider call that rejects (provider unreachable, HTTP error).
Throws == "throws"

\* Result sets of an engine.  DuckDB returns COUNT(*) as a bigint.
BigintRows == <<[count |-> [type |-> "bigint", value |-> 4]]>>
RowSets == {<<>>, BigintRows}

\* The messages of the errors the engines reject a query with (non-empty).
ErrorMessages == {"relation does not exist", "syntax error"}

\* ------------------------------------------------------------------------
\* The knowledge base: documents, their chunks, and the keyword search of
\* server/rag-service.ts
\* ------------------------------------------------------------------------

\* At most this many documents are ever uploaded.
MaxDocs == 2

\* A file chunks into at most this many chunks.
MaxChunks == 2

\* The serial ids of the knowledge_documents rows.
DocIds == 1..MaxDocs

\* errorMessage of a row that has none (SQL NULL).
NoMessage == <<>>

\* No row with that id: never inserted, or deleted.
NoDocument ==
  [status |-> "absent", chunkCount |-> 0, errorMessage |-> NoMessage]

\* The row the upload handler inserts: status processing, chunk_count at
\* its column default 0, error_message NULL.
NewDocument ==
  [status |-> "processing", chunkCount |-> 0, errorMessage |-> NoMessage]

\* The texts chunkText cuts a file into, in order:
\*   Sales report 2024 / salesforce notes / #memo a / total report
ChunkPool ==
  <<<<"Sales", " ", "report", " ", "2024">>,
    <<"sales", "force", " ", "notes">>,
    <<"#memo", " ", "a">>,
    <<"total", " ", "report">>>>

\* chunks[i] of the chunks of a file (i counts from 0).
chunkContent(i) == ChunkPool[(i % Len(ChunkPool)) + 1]

\* The row processDocument inserts for chunks[i] of document docId.
chunkRow(docId, i) ==
  [documentId |-> docId, chunkIndex |-> i, content |-> chunkContent(i)]

\* The questions put to the knowledge base: sales report / ? / #memo
Queries ==
  {<<"sales", " ", "report">>, <<"?">>, <<"#memo">>}

\* Atoms of the alphabet that are one character long.
SingleCharAtoms == {"a", "_", "1", "2", "3", "5", "9"}

\* A character that tokenize keeps: not replaced by a blank by
\* /[^\w\s<Hangul syllables>]/g and not white space.
IsTokenAtom(a) == IsWordAtom(a) \/ a \in HangulAtoms

\* split(/\s+/) of the text whose other characters were blanked: the maximal
\* runs of kept characters.
RECURSIVE tokenRuns(_, _)
tokenRuns(text, run) ==
  LET closed == IF run = <<>> THEN <<>> ELSE <<run>>
  IN  IF text = <<>> THEN closed
      ELSE IF IsTokenAtom(text[1])
      THEN tokenRuns(Tail(text), Append(run, text[1]))
      ELSE closed \o tokenRuns(Tail(text), <<>>)

\* token.length >= 2
longEnough(token) == Len(token) >= 2 \/ token[1] \notin SingleCharAtoms

\* tokenize: lower-case, blank the other characters, split, keep the tokens
\* of at least two characters.
tokenize(text) == SelectSeq(tokenRuns(toLowerCase(text), <<>>), longEnough)

\* What one pair of tokens adds to matchScore, doubled (1.0 -> 2, 0.5 -> 1).
pairScore(queryToken, contentToken) ==
  IF contentToken = queryToken THEN 2
  ELSE IF includes(contentToken, queryToken)
            \/ includes(queryToken, contentToken)
  THEN 1 ELSE 0

RECURSIVE tokenScore(_, _)
tokenScore(queryToken, contentTokens) ==
  IF contentTokens = <<>> THEN 0
  ELSE pairScore(queryToken, contentTokens[1])
         + tokenScore(queryToken, Tail(contentTokens))

\* matchScore of a chunk, doubled.
RECURSIVE matchScore(_, _)
matchScore(queryTokens, contentTokens) ==
  IF queryTokens = <<>> THEN 0
  ELSE tokenScore(queryTokens[1], contentTokens)
         + matchScore(Tail(queryTokens), contentTokens)

\* Math.max and Math.min of two numbers.
MathMax(a, b) == IF a >= b THEN a ELSE b
MathMin(a, b) == IF a <= b THEN a ELSE b

\* normalizedScore = Math.min(matchScore / Math.max(queryTokens.length, 1),
\* 1.0), as the numerator over the denominator 2 * max(length, 1), which is
\* the same for every chunk of one search.
normalizedScore(queryTokens, contentTokens) ==
  MathMin(matchScore(queryTokens, contentTokens),
          2 * MathMax(Len(queryTokens), 1))

\* The SearchResult built from a fetched row.
scoredChunk(queryTokens, chunk) ==
  [chunkId |-> <<chunk.documentId, chunk.chunkIndex>>,
   documentId |-> chunk.documentId,
   content |-> chunk.content,
   score |-> normalizedScore(queryTokens, tokenize(chunk.content))]

\* Array.prototype.sort((a, b) => b.score - a.score): stable, descending.
RECURSIVE insertByScore(_, _)
insertByScore(sorted, r) ==
  IF sorted = <<>> THEN <<r>>
  ELSE IF sorted[1].score >= r.score
  THEN <<sorted[1]>> \o insertByScore(Tail(sorted), r)
  ELSE <<r>> \o sorted

RECURSIVE sortByScore(_)
sortByScore(rs) ==
  IF rs = <<>> THEN <<>>
  ELSE insertByScore(sortByScore(SubSeq(rs, 1, Len(rs) - 1)), rs[Len(rs)])

\* Array.prototype.slice(0, end)
slice(s, end) ==
  LET to == IF end < 0 THEN MathMax(Len(s) + end, 0)
            ELSE MathMin(end, Len(s))
  IN  SubSeq(s, 1, to)

\* Mutation: the join without the status filter.
fetchReadyChunks_anyStatus(documents, chunks) ==
  SelectSeq(chunks,
            LAMBDA c : documents[c.documentId].status # "absent")

\* The rows of document_chunks inner-joined with knowledge_documents where
\* the document status is ready; the rows come in the order of the table.
fetchReadyChunks(documents, chunks) ==
  SelectSeq(chunks, LAMBDA c : documents[c.documentId].status = "ready")

\* { results: [], totalFound: 0 }
NoResults == [results |-> <<>>, totalFound |-> 0]

\* Mutation: the lexical search with a score floor, as the search by
\* embedding has one.
hybridSearch_withFloor(query, topK, documents, chunks, fetchOk) ==
  IF ~fetchOk THEN NoResults
  ELSE LET queryTokens == tokenize(query)
           allChunks == fetchReadyChunks(documents, chunks)
           scoredChunks == [i \in 1..Len(allChunks) |->
                              scoredChunk(queryTokens, allChunks[i])]
           results == SelectSeq(slice(sortByScore(scoredChunks), topK),
                                LAMBDA r : r.score > 0)
       IN  [results |-> results, totalFound |-> Len(results)]

\* hybridSearch: fetchOk is FALSE when the select rejects, which the catch
\* turns into the empty context.
hybridSearch(query, topK, documents, chunks, fetchOk) ==
  IF ~fetchOk THEN NoResults
  ELSE LET queryTokens == tokenize(query)
           allChunks == fetchReadyChunks(documents, chunks)
       IN  IF Len(allChunks) = 0 THEN NoResults
           ELSE LET scoredChunks ==
                      [i \in 1..Len(allChunks) |->
                         scoredChunk(queryTokens, allChunks[i])]
                    results == slice(sortByScore(scoredChunks), topK)
                IN  [results |-> results, totalFound |-> Len(results)]

\* ------------------------------------------------------------------------
\* Answer synthesis: the local provider, the cloud model list and the fixed
\* answers of generateRagResponse
\* ------------------------------------------------------------------------

\* The fixed answers; a string is the sequence of its pieces.
NO_DOCUMENTS_ANSWER == <<"no relevant document found, register documents first">>
NO_MODEL_ANSWER == <<"no RAG model is enabled">>
GENERATION_FAILED_ANSWER == <<"an error occurred while answering, try again">>

\* error.message || <default> in the catch of generateWithOllama
OLLAMA_DEFAULT_ERROR == "Ollama could not generate a response"

\* What the local server does with the chat request: the fetch (or the
\* parse of its body) throws an error with the message text; it answers
\* with a status that is not ok and the body text; or it answers ok with a
\* JSON body whose message.content is text ("" when empty or missing).
OllamaReplies ==
  {[kind |-> "throws", text |-> "fetch failed"],
   [kind |-> "throws", text |-> ""],
   [kind |-> "http", text |-> "model not found"],
   [kind |-> "ok", text |-> "a local answer"],
   [kind |-> "ok", text |-> ""]}

\* generateWithOllama: the { response, error } it resolves with; it never
\* rejects.  error is Null when absent.
generateWithOllama(reply) ==
  IF reply.kind = "http"
  THEN [response |-> <<>>, error |-> <<"Ollama error: ", reply.text>>]
  ELSE IF reply.kind = "throws"
  THEN [response |-> <<>>,
        error |-> IF reply.text # "" THEN <<reply.text>>
                  ELSE <<OLLAMA_DEFAULT_ERROR>>]
  ELSE [response |-> IF reply.text # "" THEN <<reply.text>> ELSE <<>>,
        error |-> Null]

\* The answer returned when the local call reports an error.
ollamaErrorAnswer(error) ==
  <<"Ollama error: ">> \o error \o <<". check that the Ollama server runs">>

\* DEFAULT_RAG_MODELS
DEFAULT_RAG_MODELS ==
  <<[id |-> "meta-llama/llama-3.3-70b-instruct:free", enabled |-> TRUE],
    [id |-> "mistralai/devstral-2512:free", enabled |-> TRUE]>>

\* The values of ragModels the management endpoints lead to: the default
\* list, a model toggled off, a third model added, every model off, every
\* model removed.
RagModelConfigs ==
  {DEFAULT_RAG_MODELS,
   [DEFAULT_RAG_MODELS EXCEPT ![1].enabled = FALSE],
   Append(DEFAULT_RAG_MODELS, [id |-> "added/model", enabled |-> TRUE]),
   Append([DEFAULT_RAG_MODELS EXCEPT ![2].enabled = FALSE],
          [id |-> "added/model", enabled |-> TRUE]),
   [i \in 1..2 |-> [DEFAULT_RAG_MODELS[i] EXCEPT !.enabled = FALSE]],
   <<>>}

\* Mutation: the list is used unfiltered.
enabledModelsOf_unfiltered(models) == models

\* ragModels.filter(m => m.enabled)
enabledModelsOf(models) == SelectSeq(models, LAMBDA m : m.enabled)

\* An element of the list that is null: PUT /api/rag/models accepts any
\* JSON array as the new list.
NullModel == [null |-> TRUE]

\* m.enabled of the filter is read on a null element: a TypeError.
filterThrows(models) == \E i \in DOMAIN models : models[i] = NullModel

\* What a cloud chat completion does: it rejects, or it resolves with the
\* content (<<>> when empty or missing).
CloudOutcomes ==
  {[throws |-> TRUE, content |-> <<>>],
   [throws |-> FALSE, content |-> <<>>],
   [throws |-> FALSE, content |-> <<"a cloud answer">>]}

\* Mutation: an empty context is not answered at once.
noContext_ignored(context) == FALSE

\* if (context.length === 0)
noContext(context) == Len(context) = 0

\* topK of the search queryRag makes.
QUERY_TOP_K == 5

\* ------------------------------------------------------------------------
\* The POST /api/sql-chat handler
\* ------------------------------------------------------------------------

MAX_RETRIES == 2

APOLOGY == "apology: the query could not be executed, please rephrase"
DEFAULT_GENERAL_ANSWER == "ask in more detail if you need help"
DEFAULT_SUMMARY_ANSWER == "please check the results"

\* lastError = null
NoError == "<null>"

VARIABLES
  datasets,       \* the rows of the datasets table
  pc,             \* where the handler of the request stands
  message,        \* the parsed request body
  duckdbTables,   \* from buildDynamicSchema
  datasetNames,   \* from buildDynamicSchema
  cleanedSql,     \* cleanSql of the generated content, before validation
  generatedSql,   \* the query text the loop works on
  attempt,        \* the loop counter
  lastError,
  queryResult,
  response,       \* what res.status(..).json(..) sent
  execLog,        \* every execution: text, engine, outcome
  calls,          \* provider calls made, by kind, and the kinds that rejected
  dynamicSchema,  \* the uploaded-datasets part of the schema text
  knowledgeDocuments,  \* the rows of knowledge_documents, by id
  documentChunks,      \* the rows of document_chunks, in table order
  processing,     \* where processDocument of each document stands
  deletion,       \* where the handler of a document DELETE stands
  searchContext,  \* what the last hybridSearch returned
  ollamaEnabled,  \* ollama-service: the offline flag
  ragModels,      \* rag-service: the cloud model list
  ragPc,          \* where queryRag stands
  enabledModels,  \* generateRagResponse: the filtered model list
  modelIndex,     \* generateRagResponse: the model of the loop being called
  ragResult,      \* what queryRag returned: answer and sources
  providerCalls,  \* every generative call of queryRag: provider, outcome
  engineTables,   \* the tables of the analytic engine, with their dataset
  datasetUpload,  \* where the handler of a dataset upload stands
  datasetDeletion,  \* where the handler of a dataset DELETE stands
  deletedDatasets,  \* the ids whose DELETE answered with success
  searchRequest,  \* the search answered last: regime, query, topK
  cleanCall,      \* cleanSql applied on its own: input, output, output again
  fallbackCall    \* getFallbackSql applied on its own, and its routing

\* The state of the handler of /api/sql-chat.
chatVars ==
  <<datasets, pc, message, duckdbTables, datasetNames, cleanedSql,
    generatedSql, attempt, lastError, queryResult, response, execLog, calls,
    dynamicSchema>>

\* The knowledge base and the requests on it.
kbVars ==
  <<knowledgeDocuments, documentChunks, processing, deletion, searchContext>>

\* Answer synthesis.
ragVars ==
  <<ollamaEnabled, ragModels, ragPc, enabledModels, modelIndex, ragResult,
    providerCalls>>

\* The analytic engine and the dataset routes.
storeVars ==
  <<engineTables, datasetUpload, datasetDeletion, deletedDatasets>>

\* The functions applied on their own: arguments and results.
callVars == <<searchRequest, cleanCall, fallbackCall>>

vars == <<chatVars, kbVars, ragVars, storeVars, callVars>>

\* A response body: fields lists the keys present in the JSON object.
NoResponse ==
  [status |-> 0, fields |-> {}, answer |-> "", sql |-> <<>>, data |-> <<>>,
   error |-> "", message |-> ""]

\* res.status(400).json({ message: "Invalid input" })
InvalidInputResponse ==
  [NoResponse EXCEPT !.status = 400, !.fields = {"message"},
                     !.message = "Invalid input"]

\* res.status(500).json({ message: "Internal server error" })
InternalErrorResponse ==
  [NoResponse EXCEPT !.status = 500, !.fields = {"message"},
                     !.message = "Internal server error"]

\* res.json({ answer, sql: "", data: [] })
GeneralResponse(answer) ==
  [NoResponse EXCEPT !.status = 200, !.fields = {"answer", "sql", "data"},
                     !.answer = answer]

\* res.status(200).json({ answer: <apology>, sql, data: [], error })
ErrorResponse(sqlText, error) ==
  [NoResponse EXCEPT !.status = 200,
                     !.fields = {"answer", "sql", "data", "error"},
                     !.answer = APOLOGY, !.sql = sqlText, !.error = error]

\* The JSON replacer of the handler: a bigint becomes a number.
safeValue(v) == IF v.type = "bigint" THEN [v EXCEPT !.type = "number"] ELSE v
safeData(rows) ==
  [i \in DOMAIN rows |-> [k \in DOMAIN rows[i] |-> safeValue(rows[i][k])]]

\* res.json({ answer, sql: generatedSql, data: safeData })
SuccessResponse(answer, sqlText, rows) ==
  [NoResponse EXCEPT !.status = 200, !.fields = {"answer", "sql", "data"},
                     !.answer = answer, !.sql = sqlText,
                     !.data = safeData(rows)]

\* Mutation: the single-table query is used whenever any analytic table is
\* registered.
validationFallback_anyTable(msg, tables) ==
  IF Len(tables) >= 1 THEN singleTableSql(tables[1]) ELSE getFallbackSql(msg)

\* The query substituted for an invalid generated text.
validationFallback(msg, tables) ==
  IF Len(tables) = 1 THEN singleTableSql(tables[1]) ELSE getFallbackSql(msg)

\* The query substituted when a repair yields nothing usable; failedSql is
\* the text whose execution just failed.
repairFallback(msg, tables, failedSql) ==
  IF Len(tables) = 1 /\ pickDuckdbTableFromSql(failedSql, tables) # Null
  THEN singleTableSql(tables[1])
  ELSE getFallbackSql(msg)

\* Mutation: the engine is chosen by whether analytic tables are registered,
\* not by the text about to be executed.
engineFor_byRegistry(sqlText, tables) ==
  IF Len(tables) > 0 THEN "duckdb" ELSE "postgres"

\* The engine an attempt runs on.
engineFor(sqlText, tables) ==
  IF pickDuckdbTableFromSql(sqlText, tables) # Null
  THEN "duckdb" ELSE "postgres"

\* Mutation: the loop stops one attempt early.
loopContinues_short(n) == n < MAX_RETRIES

\* for (...; attempt <= MAX_RETRIES; ...)
loopContinues(n) == n <= MAX_RETRIES

\* Mutation: a repair is also asked for after the last attempt.
canRepair_afterLast(n) == n <= MAX_RETRIES

\* if (attempt < MAX_RETRIES) in the catch of the loop
canRepair(n) == n < MAX_RETRIES

\* processDocument was not called for the document.
NotStarted == [pc |-> "none", chunks |-> 0, i |-> 0, error |-> Null]

\* No document DELETE is being handled.
NoDeletion == [pc |-> "none", doc |-> 0]

\* queryRag has not returned.
NoRagResult == [answer |-> <<>>, sources |-> <<>>]

\* No request has reached the /api/sql-chat handler.
ChatIdle ==
  /\ pc = "idle"
  /\ message = <<>>
  /\ duckdbTables = <<>>
  /\ datasetNames = <<>>
  /\ dynamicSchema = <<>>
  /\ cleanedSql = <<>>
  /\ generatedSql = <<>>
  /\ attempt = 0
  /\ lastError = NoError
  /\ queryResult = <<>>
  /\ response = NoResponse
  /\ execLog = <<>>
  /\ calls = [generate |-> 0, fix |-> 0, general |-> 0, summary |-> 0,
              failed |-> {}]

\* No request is being handled on the knowledge base.
KbIdle ==
  /\ processing = [d \in DocIds |-> NotStarted]
  /\ deletion = NoDeletion
  /\ searchContext = NoResults

\* No dataset request is being handled.
NoDatasetRequest == [pc |-> "none", id |-> 0, table |-> Null]

\* The analytic engine holds the tables the registered datasets name, and
\* no dataset route is running.
StoreIdle ==
  /\ engineTables =
       {[dataset |-> datasets[i].id, name |-> datasets[i].duckdbTable] :
          i \in {j \in DOMAIN datasets : datasets[j].duckdbTable # Null}}
  /\ datasetUpload = NoDatasetRequest
  /\ datasetDeletion = NoDatasetRequest
  /\ deletedDatasets = {}

\* No search has been answered.
NoSearch ==
  [regime |-> "none", query |-> <<>>, topK |-> 0, fetched |-> FALSE,
   queryEmbedding |-> <<>>]

\* No function has been applied on its own.
NoCall ==
  /\ searchRequest = NoSearch
  /\ cleanCall = [applied |-> 0]
  /\ fallbackCall = [applied |-> FALSE]

\* No queryRag is running.
RagIdle ==
  /\ ragPc = "idle"
  /\ enabledModels = <<>>
  /\ modelIndex = 0
  /\ ragResult = NoRagResult
  /\ providerCalls = <<>>

\* The server after start: module state at its initial values, the
\* knowledge base empty.
Init ==
  /\ datasets \in DatasetConfigs
  /\ ChatIdle
  /\ knowledgeDocuments = [d \in DocIds |-> NoDocument]
  /\ documentChunks = <<>>
  /\ KbIdle
  /\ ollamaEnabled = FALSE
  /\ ragModels = DEFAULT_RAG_MODELS
  /\ RagIdle
  /\ StoreIdle
  /\ NoCall

\* The body fails the zod schema: the outer catch answers 400.
RejectBody ==
  /\ pc = "idle"
  /\ pc' = "done"
  /\ response' = InvalidInputResponse
  /\ UNCHANGED <<datasets, message, duckdbTables, datasetNames, cleanedSql,
                 generatedSql, attempt, lastError, queryResult, execLog,
                 calls>>
  /\ UNCHANGED <<dynamicSchema, kbVars, ragVars, storeVars, callVars>>

\* Parse the body, build the schema and gate on the topic.
ReceiveRequest(msg, selectOk) ==
  /\ pc = "idle"
  /\ LET built == buildDynamicSchema(datasets, selectOk)
     IN  /\ message' = msg
         /\ duckdbTables' = built.duckdbTables
         /\ datasetNames' = built.datasetNames
         /\ dynamicSchema' = built.schema
         /\ pc' = IF isDatasetQuestion(msg, built.datasetNames)
                  THEN "generate" ELSE "general"
  /\ UNCHANGED <<datasets, cleanedSql, generatedSql, attempt, lastError,
                 queryResult, response, execLog, calls>>
  /\ UNCHANGED <<kbVars, ragVars, storeVars, callVars>>

\* Not a dataset question: one general-answer call, then the response.
GeneralCompletion(outcome) ==
  /\ pc = "general"
  /\ calls' = [calls EXCEPT !.general = @ + 1,
                            !.failed = IF outcome = Throws
                                       THEN @ \cup {"general"} ELSE @]
  /\ pc' = "done"
  /\ response' =
       IF outcome = Throws THEN InternalErrorResponse
       ELSE GeneralResponse(IF outcome = "" THEN DEFAULT_GENERAL_ANSWER
                            ELSE outcome)
  /\ UNCHANGED <<datasets, message, duckdbTables, datasetNames, cleanedSql,
                 generatedSql, attempt, lastError, queryResult, execLog>>
  /\ UNCHANGED <<dynamicSchema, kbVars, ragVars, storeVars, callVars>>

\* The generation call rejects: the outer catch answers 500.
GenerateThrows ==
  /\ pc = "generate"
  /\ calls' = [calls EXCEPT !.generate = @ + 1,
                            !.failed = @ \cup {"generate"}]
  /\ pc' = "done"
  /\ response' = InternalErrorResponse
  /\ UNCHANGED <<datasets, message, duckdbTables, datasetNames, cleanedSql,
                 generatedSql, attempt, lastError, queryResult, execLog>>
  /\ UNCHANGED <<dynamicSchema, kbVars, ragVars, storeVars, callVars>>

\* The generation call returns: clean, validate, substitute the fallback
\* for an invalid text, and enter the loop.
GenerateCompletion(content) ==
  /\ pc = "generate"
  /\ calls' = [calls EXCEPT !.generate = @ + 1]
  /\ cleanedSql' = cleanSql(content)
  /\ generatedSql' =
       IF isInvalidSql(cleanSql(content))
       THEN validationFallback(message, duckdbTables)
       ELSE cleanSql(content)
  /\ attempt' = 0
  /\ lastError' = NoError
  /\ queryResult' = <<>>
  /\ pc' = "execute"
  /\ UNCHANGED <<datasets, message, duckdbTables, datasetNames, response,
                 execLog>>
  /\ UNCHANGED <<dynamicSchema, kbVars, ragVars, storeVars, callVars>>

\* An attempt of the loop succeeds: lastError = null; break.
ExecuteSucceeds(rows) ==
  /\ pc = "execute"
  /\ execLog' = Append(execLog,
       [sql |-> generatedSql, engine |-> engineFor(generatedSql, duckdbTables),
        ok |-> TRUE, rows |-> rows, error |-> NoError])
  /\ queryResult' = rows
  /\ lastError' = NoError
  /\ pc' = "summarize"
  /\ UNCHANGED <<datasets, message, duckdbTables, datasetNames, cleanedSql,
                 generatedSql, attempt, response, calls>>
  /\ UNCHANGED <<dynamicSchema, kbVars, ragVars, storeVars, callVars>>

\* An attempt of the loop fails: remember the error, then repair if the
\* budget allows, else leave the loop and answer with the error.
ExecuteFails(error) ==
  /\ pc = "execute"
  /\ execLog' = Append(execLog,
       [sql |-> generatedSql, engine |-> engineFor(generatedSql, duckdbTables),
        ok |-> FALSE, rows |-> <<>>, error |-> error])
  /\ lastError' = error
  /\ IF canRepair(attempt)
     THEN /\ pc' = "fix"
          /\ UNCHANGED <<attempt, response>>
     ELSE /\ attempt' = attempt + 1
          /\ IF loopContinues(attempt + 1)
             THEN /\ pc' = "execute"
                  /\ UNCHANGED response
             ELSE /\ pc' = "done"
                  /\ response' = ErrorResponse(generatedSql, error)
  /\ UNCHANGED <<datasets, message, duckdbTables, datasetNames, cleanedSql,
                 generatedSql, queryResult, calls>>
  /\ UNCHANGED <<dynamicSchema, kbVars, ragVars, storeVars, callVars>>

\* What fixSqlWithLLM returns: the cleaned content, or the failing query
\* when the provider call rejects.
fixSqlWithLLM(originalSql, outcome) ==
  IF outcome.throws THEN originalSql ELSE fixedSqlFromContent(outcome.content)

\* The repair call and the adoption of its result, then the next iteration.
FixSql(outcome) ==
  /\ pc = "fix"
  /\ calls' = [calls EXCEPT !.fix = @ + 1,
                            !.failed = IF outcome.throws
                                       THEN @ \cup {"fix"} ELSE @]
  /\ LET fixedSql == fixSqlWithLLM(generatedSql, outcome)
     IN  generatedSql' =
           IF fixedSql # Null /\ fixedSql # generatedSql
           THEN fixedSql
           ELSE repairFallback(message, duckdbTables, generatedSql)
  /\ attempt' = attempt + 1
  /\ IF loopContinues(attempt + 1)
     THEN /\ pc' = "execute"
          /\ UNCHANGED response
     ELSE /\ pc' = "done"
          /\ response' = ErrorResponse(generatedSql', lastError)
  /\ UNCHANGED <<datasets, message, duckdbTables, datasetNames, cleanedSql,
                 lastError, queryResult, execLog>>
  /\ UNCHANGED <<dynamicSchema, kbVars, ragVars, storeVars, callVars>>

\* After a successful execution: the summary call, then the response.
SummaryCompletion(outcome) ==
  /\ pc = "summarize"
  /\ calls' = [calls EXCEPT !.summary = @ + 1,
                            !.failed = IF outcome = Throws
                                       THEN @ \cup {"summary"} ELSE @]
  /\ pc' = "done"
  /\ response' =
       IF outcome = Throws THEN InternalErrorResponse
       ELSE SuccessResponse(IF outcome = "" THEN DEFAULT_SUMMARY_ANSWER
                            ELSE outcome,
                            generatedSql, queryResult)
  /\ UNCHANGED <<datasets, message, duckdbTables, datasetNames, cleanedSql,
                 generatedSql, attempt, lastError, queryResult, execLog>>
  /\ UNCHANGED <<dynamicSchema, kbVars, ragVars, storeVars, callVars>>

Next ==
  \/ RejectBody
  \/ \E msg \in Messages, selectOk \in BOOLEAN : ReceiveRequest(msg, selectOk)
  \/ \E outcome \in AnswerContents \cup {Throws} : GeneralCompletion(outcome)
  \/ GenerateThrows
  \/ \E content \in GeneratedContents : GenerateCompletion(content)
  \/ \E rows \in RowSets : ExecuteSucceeds(rows)
  \/ \E error \in ErrorMessages : ExecuteFails(error)
  \/ \E outcome \in FixOutcomes : FixSql(outcome)
  \/ \E outcome \in AnswerContents \cup {Throws} : SummaryCompletion(outcome)

Spec == Init /\ [][Next]_vars

\* ------------------------------------------------------------------------
\* Properties of the repair loop
\* ------------------------------------------------------------------------

Executions == 1..Len(execLog)

AllExecutionsFailed == \A i \in Executions : ~execLog[i].ok

\* The generated text was invalid and the fallback was substituted for it
\* at validation time (the request has passed the generation step).
SubstitutedAtValidation ==
  pc \in {"execute", "fix", "summarize", "done"}
    /\ calls.generate = 1 /\ "generate" \notin calls.failed
    /\ isInvalidSql(cleanedSql)

\* C1: in one request the loop executes a query at most 3 times (1 initial
\* attempt + 2 retries) and calls the repair provider at most 2 times,
\* whatever the engines and the provider return; the loop counter counts
\* executions only, so a fallback substituted at validation time leaves all
\* 3 attempts available: a request is answered with the engine error only
\* after 3 executions.
C1_RetryBudget ==
  /\ Len(execLog) <= 3
  /\ calls.fix <= 2
  /\ pc = "execute" => attempt = Len(execLog)
  /\ (pc = "done" /\ "error" \in response.fields) => Len(execLog) = 3

\* A request whose generated text was replaced at validation time and that
\* still made 3 executions and 2 repair calls.
C1_Witness ==
  SubstitutedAtValidation /\ Len(execLog) = 3 /\ calls.fix = 2

C3_SuccessEndsLoop ==
  \A i \in Executions :
    execLog[i].ok =>
      /\ i = Len(execLog)
      /\ calls.fix = i - 1
      /\ pc = "done" =>
           /\ response.status = 200
           /\ response.fields = {"answer", "sql", "data"}
           /\ response.sql = execLog[i].sql
           /\ response.data = safeData(execLog[i].rows)

\* C4: every query text handed to an engine begins with SELECT
\* (case-insensitive), repaired texts included.
C4_OnlySelectExecuted ==
  \A i \in Executions : startsWithSelect(execLog[i].sql)

NumberAtoms == {"1", "2", "3", "4", "5", "9", "10"}

\* The text names an analytic-engine table: a known one, as a whole word or
\* a quoted identifier, or an identifier of the form sanitizeTableName
\* generates, dataset_<id>_<name>.
namesAnalyticTable(sqlText, tables) ==
  \/ knownTableMatches(sqlText, tables) # {}
  \/ \E i \in generatedNameStarts(sqlText) :
       /\ i + 4 <= Len(sqlText)
       /\ sqlText[i + 2] \in NumberAtoms
       /\ sqlText[i + 3] = "_"
       /\ IsWordAtom(sqlText[i + 4])

\* C6: a query whose text names no analytic-engine table is executed on the
\* relational engine, in particular a query over structured_data filtered
\* by dataset_id.
C6_RelationalWhenNoAnalyticName ==
  \A i \in Executions :
    ~namesAnalyticTable(execLog[i].sql, duckdbTables) =>
      execLog[i].engine = "postgres"

\* C7: the engine is chosen again from the current text before every
\* attempt: an attempt runs on the analytic engine if and only if
\* pickDuckdbTableFromSql of the text it executes is non-null.
C7_EngineChosenPerAttempt ==
  \A i \in Executions :
    /\ execLog[i].engine \in {"duckdb", "postgres"}
    /\ execLog[i].engine = "duckdb" <=>
         pickDuckdbTableFromSql(execLog[i].sql, duckdbTables) # Null

\* A retry that ran on the relational engine right after an attempt that
\* failed on the analytic engine.
C7_Witness ==
  \E i \in Executions :
    /\ i + 1 \in Executions
    /\ execLog[i].engine = "duckdb" /\ ~execLog[i].ok
    /\ execLog[i + 1].engine = "postgres"

\* ------------------------------------------------------------------------
\* Properties of the provider calls and the topic gating
\* ------------------------------------------------------------------------

\* C8: when the provider call that generates the query fails, the request
\* still ends in a well-formed answer object: the deterministic fallback
\* query is substituted and executed.
C8_GenerationFailureFallsBack ==
  (pc = "done" /\ "generate" \in calls.failed) =>
    /\ response.status = 200
    /\ "answer" \in response.fields
    /\ execLog # <<>>

\* The request was classified as not data-related.
GatedOut == pc = "general" \/ calls.general > 0

\* The request was classified as data-related.
GatedIn == pc \in {"generate", "execute", "fix", "summarize"}
             \/ calls.generate > 0

\* C9: a question classified as not data-related makes no generation call,
\* no repair call and no engine execution, and is answered with a general
\* response whose sql is empty and whose data is empty.
C9_GatedOutAnswersGenerally ==
  GatedOut =>
    /\ calls.generate = 0 /\ calls.fix = 0 /\ execLog = <<>>
    /\ pc = "done" =>
         /\ response.status = 200
         /\ response.fields = {"answer", "sql", "data"}
         /\ response.sql = <<>>
         /\ response.data = <<>>

\* t occurs in s as a whole word: an occurrence with no letter, digit,
\* underscore or Hangul syllable directly before or after it.
IsLetterAtom(a) == IsWordAtom(a) \/ a \in HangulAtoms
occursAsWholeWord(s, t) ==
  \E k \in 0..Len(s) :
    /\ OccursAt(s, t, k)
    /\ k >= 1 => ~IsLetterAtom(s[k])
    /\ k + Len(t) < Len(s) => ~IsLetterAtom(s[k + Len(t) + 1])

\* C10: a question is data-related exactly when it contains one of the
\* keyword hints or a registered dataset name as a whole word.
C10_DataRelatedIffHintOrWholeWord ==
  (GatedIn \/ GatedOut) =>
    (GatedIn <=>
       \/ \E hint \in datasetHints : includes(toLowerCase(message), <<hint>>)
       \/ \E i \in 1..Len(datasetNames) :
            /\ datasetNames[i] # Null
            /\ occursAsWholeWord(toLowerCase(message),
                                 toLowerCase(datasetNames[i])))

\* C11: a question about the built-in tables that names no uploaded dataset
\* (total products count, asked while only the built-in tables exist) is
\* answered through the SQL path: it is never classified as not
\* data-related, a query is generated and executed, and a first execution
\* that succeeds is not followed by a repair call.
C11_BuiltInQuestionUsesSqlPath ==
  (pc # "idle" /\ datasets = <<>> /\ message = TOTAL_PRODUCTS_COUNT) =>
    /\ ~GatedOut
    /\ (execLog # <<>> /\ execLog[1].ok) => calls.fix = 0
    /\ (pc = "done" /\ calls.failed = {}) =>
         /\ execLog # <<>>
         /\ "data" \in response.fields

\* ------------------------------------------------------------------------
\* queryRag: the search, then generateRagResponse, over a knowledge base at
\* rest
\* ------------------------------------------------------------------------

\* How processDocument left a document: never uploaded, ready with its n
\* chunks stored, or in error with the chunks stored before the failure.
SettledDocuments ==
  {[status |-> "absent", stored |-> 0]}
    \cup {[status |-> "ready", stored |-> n] : n \in 1..MaxChunks}
    \cup {[status |-> "error", stored |-> k] : k \in 0..MaxChunks}

\* The knowledge bases with every processDocument finished.
KnowledgeBases == [DocIds -> SettledDocuments]

\* The knowledge_documents row of a settled document.
settledRow(doc) ==
  IF doc.status = "absent" THEN NoDocument
  ELSE IF doc.status = "ready"
  THEN [status |-> "ready", chunkCount |-> doc.stored,
        errorMessage |-> NoMessage]
  ELSE [status |-> "error", chunkCount |-> 0,
        errorMessage |-> <<"connection lost">>]

\* The document_chunks rows of documents docId..MaxDocs of kb.
RECURSIVE settledChunks(_, _)
settledChunks(kb, docId) ==
  IF docId > MaxDocs THEN <<>>
  ELSE [i \in 1..kb[docId].stored |-> chunkRow(docId, i - 1)]
         \o settledChunks(kb, docId + 1)

RagInit ==
  /\ datasets = <<>>
  /\ ChatIdle
  /\ \E kb \in KnowledgeBases :
       /\ knowledgeDocuments = [d \in DocIds |-> settledRow(kb[d])]
       /\ documentChunks = settledChunks(kb, 1)
       /\ processing =
            [d \in DocIds |->
               IF kb[d].status = "absent" THEN NotStarted
               ELSE [NotStarted EXCEPT
                       !.pc = "returned",
                       !.chunks = IF kb[d].status = "ready"
                                  THEN kb[d].stored ELSE 0]]
  /\ deletion = NoDeletion
  /\ searchContext = NoResults
  /\ ollamaEnabled \in BOOLEAN
  /\ ragModels \in RagModelConfigs
  /\ RagIdle
  /\ StoreIdle
  /\ NoCall

\* A generative call is issued.
pendingCall(provider) ==
  [provider |-> provider, outcome |-> "pending", content |-> <<>>]

\* The call in flight ends: with a content, with an empty content, or with
\* an error.
settleCall(outcome, content) ==
  [providerCalls EXCEPT ![Len(providerCalls)].outcome = outcome,
                        ![Len(providerCalls)].content = content]

\* generateRagResponse returns answer, and queryRag returns it with the
\* results of the search as sources.
ReturnAnswer(answer, results) ==
  /\ ragResult' = [answer |-> answer, sources |-> results]
  /\ ragPc' = "done"

\* The cloud part of generateRagResponse up to its first await: filter the
\* list; with no enabled model return the fixed answer, else call the first.
\* The filter throws on a null element of the list, and generateRagResponse
\* rejects with it.
StartCloud(calls0, results) ==
  IF filterThrows(ragModels)
  THEN /\ ragPc' = "threw"
       /\ providerCalls' = calls0
       /\ UNCHANGED <<enabledModels, modelIndex, ragResult>>
  ELSE
  LET enabled == enabledModelsOf(ragModels)
  IN  /\ enabledModels' = enabled
      /\ IF Len(enabled) = 0
         THEN /\ ReturnAnswer(NO_MODEL_ANSWER, results)
              /\ providerCalls' = calls0
              /\ UNCHANGED modelIndex
         ELSE /\ modelIndex' = 1
              /\ providerCalls' = Append(calls0, pendingCall(enabled[1].id))
              /\ ragPc' = "cloud"
              /\ UNCHANGED ragResult

\* queryRag(query): the select of hybridSearch completes (fetchOk) or
\* rejects, and generateRagResponse runs up to its first await.
RagSearch(query, fetchOk) ==
  /\ ragPc = "idle"
  /\ LET context == hybridSearch(query, QUERY_TOP_K, knowledgeDocuments,
                                 documentChunks, fetchOk)
     IN  /\ searchContext' = context
         /\ IF noContext(context.results)
            THEN /\ ReturnAnswer(NO_DOCUMENTS_ANSWER, context.results)
                 /\ UNCHANGED <<enabledModels, modelIndex, providerCalls>>
            ELSE IF ollamaEnabled
            THEN /\ providerCalls' = Append(providerCalls,
                                            pendingCall("ollama"))
                 /\ ragPc' = "ollama"
                 /\ UNCHANGED <<enabledModels, modelIndex, ragResult>>
            ELSE StartCloud(providerCalls, context.results)
  /\ UNCHANGED <<knowledgeDocuments, documentChunks, processing, deletion,
                 ollamaEnabled, ragModels, chatVars, storeVars, callVars>>

\* generateWithOllama resolves: a response is returned, an error is
\* returned as the Ollama error answer, and a result with neither goes on
\* to the cloud models.
OllamaCompletion(reply) ==
  /\ ragPc = "ollama"
  /\ LET result == generateWithOllama(reply)
     IN  IF result.response # Null
         THEN /\ ReturnAnswer(result.response, searchContext.results)
              /\ providerCalls' = settleCall("content", result.response)
              /\ UNCHANGED <<enabledModels, modelIndex>>
         ELSE IF result.error # Null
         THEN /\ ReturnAnswer(ollamaErrorAnswer(result.error),
                              searchContext.results)
              /\ providerCalls' = settleCall("error", <<>>)
              /\ UNCHANGED <<enabledModels, modelIndex>>
         ELSE StartCloud(settleCall("empty", <<>>), searchContext.results)
  /\ UNCHANGED <<kbVars, ollamaEnabled, ragModels, chatVars, storeVars, callVars>>

\* The chat completion of enabledModels[modelIndex] resolves or rejects:
\* a content is returned; otherwise the next model is called, or the fixed
\* answer is returned after the last one.
CloudCompletion(outcome) ==
  /\ ragPc = "cloud"
  /\ LET settled == settleCall(IF outcome.throws THEN "error"
                               ELSE IF outcome.content # Null THEN "content"
                               ELSE "empty",
                               outcome.content)
     IN  IF ~outcome.throws /\ outcome.content # Null
         THEN /\ ReturnAnswer(outcome.content, searchContext.results)
              /\ providerCalls' = settled
              /\ UNCHANGED modelIndex
         ELSE IF modelIndex < Len(enabledModels)
         THEN /\ modelIndex' = modelIndex + 1
              /\ providerCalls' =
                   Append(settled,
                          pendingCall(enabledModels[modelIndex + 1].id))
              /\ UNCHANGED <<ragPc, ragResult>>
         ELSE /\ ReturnAnswer(GENERATION_FAILED_ANSWER,
                              searchContext.results)
              /\ providerCalls' = settled
              /\ UNCHANGED modelIndex
  /\ UNCHANGED <<kbVars, ollamaEnabled, ragModels, enabledModels, chatVars, storeVars, callVars>>

RagNext ==
  \/ \E query \in Queries, fetchOk \in BOOLEAN : RagSearch(query, fetchOk)
  \/ \E reply \in OllamaReplies : OllamaCompletion(reply)
  \/ \E outcome \in CloudOutcomes : CloudCompletion(outcome)

RagSpec == RagInit /\ [][RagNext]_vars

\* ------------------------------------------------------------------------
\* Properties of the answer synthesis
\* ------------------------------------------------------------------------

\* The calls of the request that have ended without a content.
FailedCall(i) == providerCalls[i].outcome \in {"error", "empty"}

\* C12: while the offline (Ollama) provider is enabled, generateRagResponse
\* never calls a cloud model: every outcome of the local call, an error and
\* an empty response without error included, ends the synthesis without
\* touching the cloud fallback list.
C12_OfflineNeverCallsCloud ==
  ollamaEnabled =>
    \A i \in DOMAIN providerCalls : providerCalls[i].provider = "ollama"

\* The ids of the models of the list whose enabled flag is true, in list
\* order.
RECURSIVE EnabledIds(_)
EnabledIds(models) ==
  IF models = <<>> THEN <<>>
  ELSE (IF models[1].enabled THEN <<models[1].id>> ELSE <<>>)
         \o EnabledIds(Tail(models))

\* C13: with the offline provider disabled, generateRagResponse calls the
\* enabled cloud models one at a time in list order, moves to the next
\* model when a call throws or returns empty content, returns the first
\* non-empty content, and calls neither a model after the one whose content
\* it returns nor a model whose enabled flag is false.
C13_CloudModelsInListOrder ==
  ~ollamaEnabled =>
    LET ids == EnabledIds(ragModels)
        n == Len(providerCalls)
    IN  /\ n <= Len(ids)
        /\ \A i \in 1..n : providerCalls[i].provider = ids[i]
        /\ \A i \in 1..n : i < n => FailedCall(i)
        /\ (ragPc = "cloud") =>
             n >= 1 /\ providerCalls[n].outcome = "pending"
        /\ (ragPc = "done" /\ n >= 1) =>
             \/ /\ providerCalls[n].outcome = "content"
                /\ providerCalls[n].content # <<>>
                /\ ragResult.answer = providerCalls[n].content
             \/ /\ FailedCall(n)
                /\ n = Len(ids)
                /\ ragResult.answer = GENERATION_FAILED_ANSWER

\* A request that skipped a disabled model: the first model failed, the
\* second one is disabled, the third one gave the answer.
C13_Witness ==
  /\ ~ollamaEnabled /\ ragPc = "done"
  /\ Len(ragModels) = 3 /\ ~ragModels[2].enabled
  /\ Len(providerCalls) = 2
  /\ providerCalls[1].outcome = "error"
  /\ providerCalls[2].provider = ragModels[3].id
  /\ ragResult.answer = providerCalls[2].content
  /\ ragResult.answer # <<>>

\* C14: for a non-empty context generateRagResponse never throws, whatever
\* the local and cloud providers do; when every candidate provider fails,
\* the string it returns is the fixed generation-failed answer.
C14_AllFailedGivesFixedAnswer ==
  (ragPc = "done" /\ providerCalls # <<>>
     /\ \A i \in DOMAIN providerCalls : FailedCall(i)) =>
    ragResult.answer = GENERATION_FAILED_ANSWER

\* C15: whenever retrieval yields no chunk (no ready document exists, or the
\* chunk store fails during the search), queryRag answers with the fixed
\* no-relevant-documents answer, returns an empty sources list, and makes
\* no generative call, local or cloud.
C15_NoChunkNoGeneration ==
  /\ (ragPc # "idle"
        /\ \A d \in DocIds : knowledgeDocuments[d].status # "ready") =>
       searchContext.results = <<>>
  /\ (ragPc # "idle" /\ searchContext.results = <<>>) =>
       /\ ragPc = "done"
       /\ ragResult.answer = NO_DOCUMENTS_ANSWER
       /\ ragResult.sources = <<>>
       /\ providerCalls = <<>>

\* A query answered with the fixed answer because the select of the search
\* was rejected, although a ready document has chunks.
C15_Witness ==
  /\ ragPc = "done" /\ searchContext.results = <<>>
  /\ \E d \in DocIds : knowledgeDocuments[d].status = "ready"
  /\ ragResult.answer = NO_DOCUMENTS_ANSWER
  /\ providerCalls = <<>>

\* ------------------------------------------------------------------------
\* Properties of the schema introspection
\* ------------------------------------------------------------------------

\* The handler has built the schema from the rows of a select that
\* succeeded and returned at least one dataset.
SchemaBuilt == pc # "idle" /\ dynamicSchema # <<>>

\* The column metadata of the dataset cannot be parsed.
Malformed(dataset) ==
  dataset.dataType = "structured" /\ dataset.columnInfo = "malformed"

\* The schema text describes the dataset.
Described(dataset) ==
  \E k \in DOMAIN dynamicSchema :
    /\ dynamicSchema[k].kind \in {"duckdb", "structured", "unstructured"}
    /\ dynamicSchema[k].id = dataset.id

InList(x, list) == \E k \in DOMAIN list : list[k] = x

\* C16: when one registered dataset has unparseable column metadata,
\* buildDynamicSchema skips only that dataset: every other registered
\* dataset, those listed after the malformed one included, is still
\* described in the schema text and still contributes its table to
\* duckdbTables and its name to datasetNames, and the malformed dataset
\* contributes nothing.
C16_OnlyMalformedDatasetSkipped ==
  SchemaBuilt =>
    \A i \in DOMAIN datasets :
      LET dataset == datasets[i]
      IN  IF Malformed(dataset)
          THEN /\ ~Described(dataset)
               /\ ~InList(dataset.duckdbTable, duckdbTables)
               /\ ~InList(dataset.name, datasetNames)
          ELSE /\ Described(dataset)
               /\ (dataset.dataType = "structured") =>
                    InList(dataset.name, datasetNames)
               /\ (dataset.dataType = "structured"
                     /\ dataset.duckdbTable # Null) =>
                    InList(dataset.duckdbTable, duckdbTables)

\* C17: for every column name of an analytic-engine dataset, the column
\* identifier written into the schema description equals the identifier
\* the analytic engine created for that column at ingestion.
C17_SchemaColumnsAreEngineColumns ==
  \A k \in DOMAIN dynamicSchema :
    dynamicSchema[k].kind = "duckdb" =>
      \A i \in DOMAIN datasets :
        datasets[i].id = dynamicSchema[k].id =>
          LET columns == datasets[i].columns
          IN  /\ Len(dynamicSchema[k].columns) = Len(columns)
              /\ \A c \in DOMAIN columns :
                   dynamicSchema[k].columns[c]
                     = sanitizeColumnName(columns[c].name)

\* ------------------------------------------------------------------------
\* The knowledge-base routes: upload with processDocument running detached,
\* the document DELETE, and the search endpoint.  Every awaited call is one
\* step: the call takes effect, or rejects, and the code runs on to the
\* next await.
\* ------------------------------------------------------------------------

\* errorMessage written when chunking yields nothing.
NO_TEXT_MESSAGE == <<"no text could be extracted from the document">>

\* error.message || <default> in the catch of processDocument
DEFAULT_PROCESSING_ERROR == <<"an error occurred while processing the document">>

\* The message of a thrown error; it may be empty.
ThrownMessages == {<<>>, <<"connection lost">>}

\* What an awaited store call does: it takes effect, or it rejects.
DbOutcomes ==
  {[throws |-> FALSE, message |-> <<>>]}
    \cup {[throws |-> TRUE, message |-> m] : m \in ThrownMessages}

\* What parseDocument and chunkText make of the file: an error, or the
\* chunks (here their number).
ParseOutcomes ==
  {[throws |-> FALSE, message |-> <<>>, chunks |-> n] : n \in 0..MaxChunks}
    \cup {[throws |-> TRUE, message |-> m, chunks |-> 0] :
            m \in ThrownMessages}

\* topK of the search requests.
TopKs == {1, 5}

\* The store as earlier uploads left it: every document id but the last
\* has been given out and its processDocument is over (the document may
\* have been deleted since); the next upload gets the last id.
Libraries == {kb \in KnowledgeBases : kb[MaxDocs].status = "absent"}

DocInit ==
  /\ datasets = <<>>
  /\ ChatIdle
  /\ \E kb \in Libraries :
       /\ knowledgeDocuments = [d \in DocIds |-> settledRow(kb[d])]
       /\ documentChunks = settledChunks(kb, 1)
       /\ processing =
            [d \in DocIds |->
               IF d = MaxDocs THEN NotStarted
               ELSE [NotStarted EXCEPT
                       !.pc = "returned",
                       !.chunks = IF kb[d].status = "ready"
                                  THEN kb[d].stored ELSE 0]]
  /\ deletion = NoDeletion
  /\ searchContext = NoResults
  /\ ollamaEnabled = FALSE
  /\ ragModels = DEFAULT_RAG_MODELS
  /\ RagIdle
  /\ StoreIdle
  /\ NoCall

\* The row of the document exists.
Exists(docId) == knowledgeDocuments[docId].status # "absent"

\* db.update(knowledgeDocuments).set(fields).where(id = docId): no row, no
\* change.
updateDocument(docId, status, chunkCount, errorMessage) ==
  IF Exists(docId)
  THEN [knowledgeDocuments EXCEPT
          ![docId] = [status |-> status, chunkCount |-> chunkCount,
                      errorMessage |-> errorMessage]]
  ELSE knowledgeDocuments

\* Mutation: the delete removes no row of document_chunks.
chunksWithout_nothingRemoved(docId) == documentChunks

\* The rows of document_chunks that do not belong to the document.
chunksWithout(docId) ==
  SelectSeq(documentChunks, LAMBDA c : c.documentId # docId)

\* An error reaches the catch of processDocument, which awaits its update.
enterCatch(docId, thrown) ==
  [processing EXCEPT
     ![docId] = [pc |-> "catch", chunks |-> 0, i |-> 0,
                 error |-> IF thrown # <<>> THEN thrown
                           ELSE DEFAULT_PROCESSING_ERROR]]

\* processDocument is over: it returned, or its promise rejected.
finish(docId, how, chunks) ==
  [processing EXCEPT
     ![docId] = [pc |-> how, chunks |-> chunks, i |-> 0, error |-> Null]]

\* The response of a search has been sent: searchContext holds the value
\* of hybridSearch only in the state its select was answered in.
Forget == searchContext' = NoResults

\* One file of an upload: the row is inserted with status processing and
\* processDocument is called, which awaits parseDocument.
UploadDocument(docId) ==
  /\ processing[docId].pc = "none"
  /\ \A d \in DocIds : d < docId => processing[d].pc # "none"
  /\ knowledgeDocuments' = [knowledgeDocuments EXCEPT ![docId] = NewDocument]
  /\ processing' = [processing EXCEPT ![docId].pc = "parse"]
  /\ Forget
  /\ UNCHANGED <<documentChunks, deletion, chatVars, ragVars, storeVars, callVars>>

\* parseDocument settles; the update of pageCount is awaited next.
ParseCompletion(docId, outcome) ==
  /\ processing[docId].pc = "parse"
  /\ processing' =
       IF outcome.throws THEN enterCatch(docId, outcome.message)
       ELSE [processing EXCEPT ![docId].pc = "pageCount",
                               ![docId].chunks = outcome.chunks]
  /\ Forget
  /\ UNCHANGED <<knowledgeDocuments, documentChunks, deletion, chatVars,
                 ragVars, storeVars, callVars>>

\* The update of pageCount settles; the text is chunked and, with no chunk,
\* the error update is awaited, else the insert of chunks[0].
PageCountCompletion(docId, outcome) ==
  /\ processing[docId].pc = "pageCount"
  /\ processing' =
       IF outcome.throws THEN enterCatch(docId, outcome.message)
       ELSE IF processing[docId].chunks = 0
       THEN [processing EXCEPT ![docId].pc = "empty"]
       ELSE [processing EXCEPT ![docId].pc = "insert", ![docId].i = 0]
  /\ Forget
  /\ UNCHANGED <<knowledgeDocuments, documentChunks, deletion, chatVars,
                 ragVars, storeVars, callVars>>

\* chunks.length === 0: the update to error settles, and return.
EmptyCompletion(docId, outcome) ==
  /\ processing[docId].pc = "empty"
  /\ IF outcome.throws
     THEN /\ processing' = enterCatch(docId, outcome.message)
          /\ UNCHANGED knowledgeDocuments
     ELSE /\ knowledgeDocuments' =
               updateDocument(docId, "error",
                              knowledgeDocuments[docId].chunkCount,
                              NO_TEXT_MESSAGE)
          /\ processing' = finish(docId, "returned", 0)
  /\ Forget
  /\ UNCHANGED <<documentChunks, deletion, chatVars, ragVars, storeVars, callVars>>

\* The insert of chunks[i] settles: it rejects when the store fails and
\* when the document row is gone (foreign key); else the row is stored and
\* the next insert, or the update to ready, is awaited.
InsertCompletion(docId, outcome) ==
  /\ processing[docId].pc = "insert"
  /\ ~outcome.throws => Exists(docId)
  /\ IF outcome.throws
     THEN /\ processing' = enterCatch(docId, outcome.message)
          /\ UNCHANGED documentChunks
     ELSE /\ documentChunks' =
               Append(documentChunks, chunkRow(docId, processing[docId].i))
          /\ processing' =
               IF processing[docId].i + 1 < processing[docId].chunks
               THEN [processing EXCEPT ![docId].i = @ + 1]
               ELSE [processing EXCEPT ![docId].pc = "ready"]
  /\ Forget
  /\ UNCHANGED <<knowledgeDocuments, deletion, chatVars, ragVars, storeVars, callVars>>

\* The update to ready with chunkCount settles, and return.
ReadyCompletion(docId, outcome) ==
  /\ processing[docId].pc = "ready"
  /\ IF outcome.throws
     THEN /\ processing' = enterCatch(docId, outcome.message)
          /\ UNCHANGED knowledgeDocuments
     ELSE /\ knowledgeDocuments' =
               updateDocument(docId, "ready", processing[docId].chunks,
                              NoMessage)
          /\ processing' = finish(docId, "returned",
                                  processing[docId].chunks)
  /\ Forget
  /\ UNCHANGED <<documentChunks, deletion, chatVars, ragVars, storeVars, callVars>>

\* The update to error in the catch settles: processDocument returns, or,
\* when this update rejects too, its promise rejects and the upload route
\* logs it.
CatchCompletion(docId, outcome) ==
  /\ processing[docId].pc = "catch"
  /\ IF outcome.throws
     THEN /\ processing' = finish(docId, "rejected", 0)
          /\ UNCHANGED knowledgeDocuments
     ELSE /\ knowledgeDocuments' =
               updateDocument(docId, "error",
                              knowledgeDocuments[docId].chunkCount,
                              processing[docId].error)
          /\ processing' = finish(docId, "returned", 0)
  /\ Forget
  /\ UNCHANGED <<documentChunks, deletion, chatVars, ragVars, storeVars, callVars>>

\* DELETE /api/knowledge-base/documents/:id, the select: 404 without the
\* row, else the delete of the chunks is awaited.
DeleteSelect(docId) ==
  /\ deletion.pc = "none"
  /\ deletion' = IF Exists(docId) THEN [pc |-> "chunks", doc |-> docId]
                 ELSE NoDeletion
  /\ Forget
  /\ UNCHANGED <<knowledgeDocuments, documentChunks, processing, chatVars,
                 ragVars, storeVars, callVars>>

\* The delete of the chunks settles; the delete of the row is awaited, or
\* the handler answers 500.
DeleteChunksCompletion(outcome) ==
  /\ deletion.pc = "chunks"
  /\ IF outcome.throws
     THEN /\ deletion' = NoDeletion
          /\ UNCHANGED documentChunks
     ELSE /\ deletion' = [deletion EXCEPT !.pc = "document"]
          /\ documentChunks' = chunksWithout(deletion.doc)
  /\ Forget
  /\ UNCHANGED <<knowledgeDocuments, processing, chatVars, ragVars, storeVars, callVars>>

\* The delete of the row settles: the row goes, and with it (on delete
\* cascade) the chunks that reference it.
DeleteDocumentCompletion(outcome) ==
  /\ deletion.pc = "document"
  /\ deletion' = NoDeletion
  /\ IF outcome.throws
     THEN UNCHANGED <<knowledgeDocuments, documentChunks>>
     ELSE /\ knowledgeDocuments' =
               [knowledgeDocuments EXCEPT ![deletion.doc] = NoDocument]
          /\ documentChunks' = chunksWithout(deletion.doc)
  /\ Forget
  /\ UNCHANGED <<processing, chatVars, ragVars, storeVars, callVars>>

\* POST /api/knowledge-base/search: hybridSearch(query, topK).
SearchDocuments(query, topK, fetchOk) ==
  /\ searchContext' = hybridSearch(query, topK, knowledgeDocuments,
                                   documentChunks, fetchOk)
  /\ UNCHANGED <<knowledgeDocuments, documentChunks, processing, deletion,
                 chatVars, ragVars, storeVars, callVars>>

DocNext ==
  \/ \E docId \in DocIds : UploadDocument(docId)
  \/ \E docId \in DocIds, outcome \in ParseOutcomes :
       ParseCompletion(docId, outcome)
  \/ \E docId \in DocIds, outcome \in DbOutcomes :
       PageCountCompletion(docId, outcome)
  \/ \E docId \in DocIds, outcome \in DbOutcomes :
       EmptyCompletion(docId, outcome)
  \/ \E docId \in DocIds, outcome \in DbOutcomes :
       InsertCompletion(docId, outcome)
  \/ \E docId \in DocIds, outcome \in DbOutcomes :
       ReadyCompletion(docId, outcome)
  \/ \E docId \in DocIds, outcome \in DbOutcomes :
       CatchCompletion(docId, outcome)
  \/ \E docId \in DocIds : DeleteSelect(docId)
  \/ \E outcome \in DbOutcomes : DeleteChunksCompletion(outcome)
  \/ \E outcome \in DbOutcomes : DeleteDocumentCompletion(outcome)
  \/ \E query \in Queries, topK \in TopKs, fetchOk \in BOOLEAN :
       SearchDocuments(query, topK, fetchOk)

DocSpec == DocInit /\ [][DocNext]_vars

\* The chunk rows stored for the document.
StoredChunks(docId) ==
  SelectSeq(documentChunks, LAMBDA c : c.documentId = docId)

\* C18: hybridSearch returns only chunks whose document has status ready
\* at the moment the chunks are fetched: every result is a stored chunk of
\* a ready document, so chunks of a document that is still processing (some
\* of its chunks already inserted) or that ended in error are never in the
\* results.
C18_OnlyReadyChunksReturned ==
  \A k \in DOMAIN searchContext.results :
    LET chunkId == searchContext.results[k].chunkId
    IN /\ knowledgeDocuments[chunkId[1]].status = "ready"
       /\ \E j \in DOMAIN documentChunks :
            /\ documentChunks[j].documentId = chunkId[1]
            /\ documentChunks[j].chunkIndex = chunkId[2]

\* A search answered with chunks while another document is still being
\* ingested and has chunks in the store already.
C18_Witness ==
  /\ searchContext.results # <<>>
  /\ \E docId \in DocIds :
       /\ knowledgeDocuments[docId].status = "processing"
       /\ processing[docId].pc = "insert"
       /\ StoredChunks(docId) # <<>>

\* processDocument is over for the document: it returned or it rejected.
Finished(docId) == processing[docId].pc \in {"returned", "rejected"}

\* C19: every uploaded knowledge document starts in status processing and
\* makes exactly one status transition, to ready or to error, which is
\* final: once processDocument is over, a document that still exists has
\* left processing for ready or for error.
C19_ProcessingEndsInReadyOrError ==
  \A docId \in DocIds :
    (Finished(docId) /\ Exists(docId))
      => knowledgeDocuments[docId].status \in {"ready", "error"}

\* C20: when processDocument finishes, either the document is ready and
\* its chunkCount equals the number of chunks produced by chunking and
\* stored for it, or the document is in error with a non-empty
\* errorMessage and a chunkCount of 0.
C20_FinishedDocumentIsConsistent ==
  \A docId \in DocIds :
    (Finished(docId) /\ Exists(docId)) =>
      LET doc == knowledgeDocuments[docId]
      IN \/ /\ doc.status = "ready"
            /\ doc.chunkCount = processing[docId].chunks
            /\ doc.chunkCount = Len(StoredChunks(docId))
         \/ /\ doc.status = "error"
            /\ doc.errorMessage # NoMessage
            /\ doc.chunkCount = 0

\* ------------------------------------------------------------------------
\* The dataset routes: POST /api/datasets/upload and DELETE
\* /api/datasets/:id, with the tables of the analytic engine.  Every awaited
\* call is one step.
\* ------------------------------------------------------------------------

\* Mutation: the table is named after the file alone.
sanitizeTableName_withoutPrefix(name, id) ==
  LET lowered == toLowerCase(name)
      replaced == [i \in DOMAIN lowered |->
                     IF IsWordAtom(lowered[i]) THEN lowered[i] ELSE "_"]
      sanitized == stripUnderscoreEnds(collapseUnderscores(replaced))
  IN  IF sanitized # <<>> THEN sanitized ELSE <<"data">>

\* sanitizeTableName of duckdb-service.ts: dataset_<id>_<name>, the name in
\* lower case with every other character than a-z, 0-9 and _ replaced by an
\* underscore; data when nothing is left.
sanitizeTableName(name, id) ==
  LET lowered == toLowerCase(name)
      replaced == [i \in DOMAIN lowered |->
                     IF IsWordAtom(lowered[i]) THEN lowered[i] ELSE "_"]
      sanitized == stripUnderscoreEnds(collapseUnderscores(replaced))
  IN  <<"dataset", "_", Digits[id + 1], "_">>
        \o (IF sanitized # <<>> THEN sanitized ELSE <<"data">>)

\* The files uploaded: name, dataType and analysed columns.
UploadedFiles == {p \in DatasetPool : p.columnInfo # "malformed"}

\* The serial id of the next row of datasets.
nextDatasetId ==
  LET used == {datasets[i].id : i \in DOMAIN datasets} \cup deletedDatasets
  IN  IF used = {} THEN 1 ELSE (CHOOSE m \in used : \A x \in used : x <= m) + 1

\* The row of the dataset, 0 when there is none.
datasetRow(id) ==
  IF \E i \in DOMAIN datasets : datasets[i].id = id
  THEN CHOOSE i \in DOMAIN datasets : datasets[i].id = id
  ELSE 0

DatasetInit ==
  /\ datasets = <<>>
  /\ ChatIdle
  /\ knowledgeDocuments = [d \in DocIds |-> NoDocument]
  /\ documentChunks = <<>>
  /\ KbIdle
  /\ ollamaEnabled = FALSE
  /\ ragModels = DEFAULT_RAG_MODELS
  /\ RagIdle
  /\ StoreIdle
  /\ NoCall

\* The dataset routes leave the rest of the server alone.
ServerUnchanged ==
  UNCHANGED <<pc, message, duckdbTables, datasetNames, cleanedSql,
              generatedSql, attempt, lastError, queryResult, response,
              execLog, calls, dynamicSchema, kbVars, ragVars, callVars>>

\* The upload inserts the row of the dataset, duckdbTable null; structured
\* data goes to createDatasetTable, other data to the relational rows.
UploadDataset(file) ==
  /\ datasetUpload.pc = "none"
  /\ nextDatasetId <= MaxDatasets
  /\ datasets' = Append(datasets, [file EXCEPT !.id = nextDatasetId,
                                               !.duckdbTable = Null])
  /\ datasetUpload' =
       [pc |-> IF file.dataType = "structured" THEN "create" ELSE "rows",
        id |-> nextDatasetId,
        table |-> sanitizeTableName(file.name, nextDatasetId)]
  /\ UNCHANGED <<engineTables, datasetDeletion, deletedDatasets>>
  /\ ServerUnchanged

\* createDatasetTable settles: the table exists and insertDataRows is
\* awaited, or the catch falls back to the relational rows.
CreateTableCompletion(ok) ==
  /\ datasetUpload.pc = "create"
  /\ engineTables' =
       IF ok THEN engineTables \cup {[dataset |-> datasetUpload.id,
                                      name |-> datasetUpload.table]}
       ELSE engineTables
  /\ datasetUpload' =
       [datasetUpload EXCEPT !.pc = IF ok THEN "insert" ELSE "rows"]
  /\ UNCHANGED <<datasets, datasetDeletion, deletedDatasets>>
  /\ ServerUnchanged

\* insertDataRows settles: the update of duckdbTable is awaited, or the
\* catch falls back to the relational rows (the table stays).
InsertRowsCompletion(ok) ==
  /\ datasetUpload.pc = "insert"
  /\ datasetUpload' =
       [datasetUpload EXCEPT !.pc = IF ok THEN "register" ELSE "rows"]
  /\ UNCHANGED <<datasets, engineTables, datasetDeletion, deletedDatasets>>
  /\ ServerUnchanged

\* The update of duckdbTable settles: the row, when it is still there,
\* names the table and the upload answers; or the catch falls back.
RegisterCompletion(ok) ==
  /\ datasetUpload.pc = "register"
  /\ IF ok
     THEN /\ datasets' =
               IF datasetRow(datasetUpload.id) = 0 THEN datasets
               ELSE [datasets EXCEPT
                       ![datasetRow(datasetUpload.id)].duckdbTable =
                          datasetUpload.table]
          /\ datasetUpload' = NoDatasetRequest
     ELSE /\ datasetUpload' = [datasetUpload EXCEPT !.pc = "rows"]
          /\ UNCHANGED datasets
  /\ UNCHANGED <<engineTables, datasetDeletion, deletedDatasets>>
  /\ ServerUnchanged

\* The insert of the relational rows settles (it rejects without the row of
\* the dataset): the upload answers, with 201 or through the outer catch
\* with 500.
RelationalRowsCompletion(ok) ==
  /\ datasetUpload.pc = "rows"
  /\ ok => datasetRow(datasetUpload.id) # 0
  /\ datasetUpload' = NoDatasetRequest
  /\ UNCHANGED <<datasets, engineTables, datasetDeletion, deletedDatasets>>
  /\ ServerUnchanged

\* DELETE /api/datasets/:id, the select: 404 without the row; with it the
\* table the row names is dropped first, if it names one.
DeleteDatasetSelect(id) ==
  /\ datasetDeletion.pc = "none"
  /\ datasetDeletion' =
       IF datasetRow(id) = 0 THEN NoDatasetRequest
       ELSE [pc |-> IF datasets[datasetRow(id)].duckdbTable # Null
                    THEN "drop" ELSE "row",
             id |-> id,
             table |-> datasets[datasetRow(id)].duckdbTable]
  /\ UNCHANGED <<datasets, engineTables, datasetUpload, deletedDatasets>>
  /\ ServerUnchanged

\* dropDatasetTable settles: the table is gone, or the error is logged;
\* either way the delete of the row is awaited.
DropTableCompletion(ok) ==
  /\ datasetDeletion.pc = "drop"
  /\ engineTables' =
       IF ok THEN {t \in engineTables : t.name # datasetDeletion.table}
       ELSE engineTables
  /\ datasetDeletion' = [datasetDeletion EXCEPT !.pc = "row"]
  /\ UNCHANGED <<datasets, datasetUpload, deletedDatasets>>
  /\ ServerUnchanged

\* The delete of the row settles: the handler answers with success, or
\* with 500.
DeleteRowCompletion(ok) ==
  /\ datasetDeletion.pc = "row"
  /\ datasetDeletion' = NoDatasetRequest
  /\ IF ok
     THEN /\ datasets' = SelectSeq(datasets,
                                   LAMBDA d : d.id # datasetDeletion.id)
          /\ deletedDatasets' = deletedDatasets \cup {datasetDeletion.id}
     ELSE UNCHANGED <<datasets, deletedDatasets>>
  /\ UNCHANGED <<engineTables, datasetUpload>>
  /\ ServerUnchanged

DatasetNext ==
  \/ \E file \in UploadedFiles : UploadDataset(file)
  \/ \E ok \in BOOLEAN : CreateTableCompletion(ok)
  \/ \E ok \in BOOLEAN : InsertRowsCompletion(ok)
  \/ \E ok \in BOOLEAN : RegisterCompletion(ok)
  \/ \E ok \in BOOLEAN : RelationalRowsCompletion(ok)
  \/ \E id \in 1..MaxDatasets : DeleteDatasetSelect(id)
  \/ \E ok \in BOOLEAN : DropTableCompletion(ok)
  \/ \E ok \in BOOLEAN : DeleteRowCompletion(ok)

DatasetSpec == DatasetInit /\ [][DatasetNext]_vars

\* C21: after DELETE /api/datasets/:id reports success, no analytic-engine
\* table that was created for that dataset exists any more, including a
\* table created by an upload whose analytic ingestion failed part-way and
\* fell back to relational storage.
C21_DeletedDatasetHasNoTable ==
  \A t \in engineTables : t.dataset \notin deletedDatasets

\* ------------------------------------------------------------------------
\* hybridSearch applied on its own to a knowledge base at rest, in its two
\* versions: the lexical one of rag-service.ts and the one that scores by
\* embedding.
\* ------------------------------------------------------------------------

\* The embedding column of a chunk: null, a text JSON.parse rejects, or the
\* JSON text of an array of numbers.
EmbeddingPool ==
  <<[kind |-> "null", vector |-> <<>>],
    [kind |-> "array", vector |-> <<1, 0>>],
    [kind |-> "text", vector |-> <<>>],
    [kind |-> "array", vector |-> <<3, 4>>],
    [kind |-> "array", vector |-> <<1, 0, 0>>],
    [kind |-> "array", vector |-> <<0, 1>>],
    [kind |-> "array", vector |-> <<-1, 0>>]>>

\* The stores differ in which chunk carries which embedding.
EmbeddingLayouts == 0..(Len(EmbeddingPool) - 1)

\* The rows with their embedding column: row k carries the embedding
\* k + layout of the pool.
withEmbeddings(rows, layout) ==
  [k \in DOMAIN rows |->
     [documentId |-> rows[k].documentId,
      chunkIndex |-> rows[k].chunkIndex,
      content |-> rows[k].content,
      embedding |-> EmbeddingPool[((k + layout) % Len(EmbeddingPool)) + 1]]]

\* What generateEmbedding gives for the query: it throws, or the vector.
QueryEmbeddings ==
  {[throws |-> TRUE, embedding |-> <<>>],
   [throws |-> FALSE, embedding |-> <<1, 0>>],
   [throws |-> FALSE, embedding |-> <<4, 3>>]}

\* The topK of the requests: the endpoint hands on what the body holds.
RequestedTopKs == {-1, 0, 1, 2, 5}

\* The questions: the ones of the knowledge-base routes and one with three
\* terms, sales report 2024.
SearchQueries ==
  Queries \cup {<<"sales", " ", "report", " ", "2024">>}

SearchInit ==
  /\ datasets = <<>>
  /\ ChatIdle
  /\ \E kb \in KnowledgeBases, layout \in EmbeddingLayouts :
       /\ knowledgeDocuments = [d \in DocIds |-> settledRow(kb[d])]
       /\ documentChunks = withEmbeddings(settledChunks(kb, 1), layout)
       /\ processing =
            [d \in DocIds |->
               IF kb[d].status = "absent" THEN NotStarted
               ELSE [NotStarted EXCEPT
                       !.pc = "returned",
                       !.chunks = IF kb[d].status = "ready"
                                  THEN kb[d].stored ELSE 0]]
  /\ deletion = NoDeletion
  /\ searchContext = NoResults
  /\ ollamaEnabled = FALSE
  /\ ragModels = DEFAULT_RAG_MODELS
  /\ RagIdle
  /\ StoreIdle
  /\ NoCall

\* Math.sqrt of a perfect square.
sqrt(n) == CHOOSE r \in 0..n : r * r = n

RECURSIVE dotProduct(_, _)
dotProduct(a, b) ==
  IF a = <<>> THEN 0 ELSE a[1] * b[1] + dotProduct(Tail(a), Tail(b))

\* cosineSimilarity, in 25ths (the vectors of the pools have norm 0, 1 or
\* 5, so the quotient is a whole number of 25ths).
cosineSimilarity(a, b) ==
  IF Len(a) # Len(b) \/ Len(a) = 0 THEN 0
  ELSE LET denominator == sqrt(dotProduct(a, a)) * sqrt(dotProduct(b, b))
       IN  IF denominator = 0 THEN 0
           ELSE (25 * dotProduct(a, b)) \div denominator

\* vectorScore of a chunk, in 25ths: 0 without an embedding and when
\* JSON.parse throws.
vectorScore(chunk, queryEmbedding) ==
  IF chunk.embedding.kind # "array" THEN 0
  ELSE cosineSimilarity(queryEmbedding, chunk.embedding.vector)

\* query.toLowerCase().split(/\s+/): the runs between white space.
RECURSIVE splitOnSpace(_, _)
splitOnSpace(text, run) ==
  LET closed == IF run = <<>> THEN <<>> ELSE <<run>>
  IN  IF text = <<>> THEN closed
      ELSE IF text[1] \notin SpaceAtoms
      THEN splitOnSpace(Tail(text), Append(run, text[1]))
      ELSE closed \o splitOnSpace(Tail(text), <<>>)

\* term.length >= 2
longTerm(term) ==
  Len(term) >= 2
    \/ (term[1] \notin SingleCharAtoms /\ term[1] \notin PunctuationAtoms)

\* keywordScore, in tenths: 0.1 for each term of the query of two
\* characters or more that the content includes, capped by Math.min at 0.3.
keywordScore(query, content) ==
  LET queryTerms == splitOnSpace(toLowerCase(query), <<>>)
      contentLower == toLowerCase(content)
      hits == {k \in DOMAIN queryTerms :
                 longTerm(queryTerms[k])
                   /\ includes(contentLower, queryTerms[k])}
  IN  MathMin(Cardinality(hits), 3)

\* Mutation: the two weights exchanged.
combinedScore_weightsExchanged(vector25, keyword10) ==
  12 * vector25 + 70 * keyword10

\* combinedScore = vectorScore * 0.7 + keywordScore * 0.3, in thousandths.
combinedScore(vector25, keyword10) == 28 * vector25 + 30 * keyword10

\* .filter(r => r.score > 0.1), in thousandths.
SCORE_FLOOR == 100

\* The SearchResult the search by embedding builds from a fetched row.
scoredByEmbedding(query, queryEmbedding, chunk) ==
  [chunkId |-> <<chunk.documentId, chunk.chunkIndex>>,
   documentId |-> chunk.documentId,
   content |-> chunk.content,
   score |-> combinedScore(vectorScore(chunk, queryEmbedding),
                           keywordScore(query, chunk.content))]

\* hybridSearch of the version that scores by embedding: sort, slice to
\* topK, then filter by the floor; the catch turns a failed embedding of
\* the query and a rejected select into the empty context.
hybridSearchByEmbedding(query, topK, documents, chunks, queryEmbedding, fetchOk) ==
  IF queryEmbedding.throws \/ ~fetchOk THEN NoResults
  ELSE LET allChunks == fetchReadyChunks(documents, chunks)
           scoredChunks ==
             [i \in 1..Len(allChunks) |->
                scoredByEmbedding(query, queryEmbedding.embedding,
                                  allChunks[i])]
           results == SelectSeq(slice(sortByScore(scoredChunks), topK),
                                LAMBDA r : r.score > SCORE_FLOOR)
       IN  [results |-> results, totalFound |-> Len(results)]

\* The frame of a search: the store and the rest of the server stay.  Each
\* run applies the function once.
SearchFrame ==
  UNCHANGED <<knowledgeDocuments, documentChunks, processing, deletion,
              chatVars, ragVars, storeVars, cleanCall, fallbackCall>>

\* hybridSearch(query, topK) of rag-service.ts.
LexicalSearch(query, topK, fetchOk) ==
  /\ searchRequest = NoSearch
  /\ searchContext' = hybridSearch(query, topK, knowledgeDocuments,
                                   documentChunks, fetchOk)
  /\ searchRequest' = [regime |-> "lexical", query |-> query,
                       topK |-> topK, fetched |-> fetchOk,
                       queryEmbedding |-> <<>>]
  /\ SearchFrame

\* hybridSearch(query, topK) of the version that scores by embedding.
EmbeddingSearch(query, topK, queryEmbedding, fetchOk) ==
  /\ searchRequest = NoSearch
  /\ searchContext' =
       hybridSearchByEmbedding(query, topK, knowledgeDocuments,
                               documentChunks, queryEmbedding, fetchOk)
  /\ searchRequest' = [regime |-> "hybrid", query |-> query,
                       topK |-> topK,
                       fetched |-> fetchOk /\ ~queryEmbedding.throws,
                       queryEmbedding |-> queryEmbedding.embedding]
  /\ SearchFrame

SearchNext ==
  \/ \E query \in SearchQueries, topK \in RequestedTopKs,
        fetchOk \in BOOLEAN :
       LexicalSearch(query, topK, fetchOk)
  \/ \E query \in SearchQueries, topK \in RequestedTopKs,
        queryEmbedding \in QueryEmbeddings, fetchOk \in BOOLEAN :
       EmbeddingSearch(query, topK, queryEmbedding, fetchOk)

SearchSpec == SearchInit /\ [][SearchNext]_vars

\* The rows of ready documents, in the order of the table.
ReadyRows ==
  SelectSeq(documentChunks,
            LAMBDA c : knowledgeDocuments[c.documentId].status = "ready")

\* A lexical search whose select was answered.
LexicalAnswered ==
  searchRequest.regime = "lexical" /\ searchRequest.fetched

\* C22: for every query and every integer topK that the search endpoint
\* accepts, hybridSearch returns at most topK results (none when topK is
\* negative).
C22_AtMostTopKResults ==
  LexicalAnswered =>
    Len(searchContext.results) <= MathMax(searchRequest.topK, 0)

\* The score the lexical search gives a row.
lexicalScore(row) ==
  normalizedScore(tokenize(searchRequest.query), tokenize(row.content))

\* The results are among the rows of ready documents, each once.
ResultsAreReadyRows ==
  /\ \A k \in DOMAIN searchContext.results :
       \E j \in DOMAIN ReadyRows :
         /\ searchContext.results[k].chunkId =
              <<ReadyRows[j].documentId, ReadyRows[j].chunkIndex>>
         /\ searchContext.results[k].score = lexicalScore(ReadyRows[j])
  /\ \A k, l \in DOMAIN searchContext.results :
       k # l => searchContext.results[k].chunkId
                  # searchContext.results[l].chunkId

\* The row is among the results.
Returned(row) ==
  \E k \in DOMAIN searchContext.results :
    searchContext.results[k].chunkId = <<row.documentId, row.chunkIndex>>

\* C23: in the lexical-only regime hybridSearch applies no score floor:
\* with n chunks in ready documents and topK >= 0 it returns exactly
\* min(topK, n) results, the highest-scoring ones in descending score
\* order, even when every score is 0.
C23_LexicalTopKWithoutFloor ==
  (LexicalAnswered /\ searchRequest.topK >= 0) =>
    /\ Len(searchContext.results)
         = MathMin(searchRequest.topK, Len(ReadyRows))
    /\ searchContext.totalFound = Len(searchContext.results)
    /\ ResultsAreReadyRows
    /\ \A k \in 1..(Len(searchContext.results) - 1) :
         searchContext.results[k].score
           >= searchContext.results[k + 1].score
    /\ \A j \in DOMAIN ReadyRows :
         ~Returned(ReadyRows[j]) =>
           \A k \in DOMAIN searchContext.results :
             searchContext.results[k].score >= lexicalScore(ReadyRows[j])

\* A lexical search in which every score is 0, answered with chunks while
\* more rows were ready than topK asked for.
C23_Witness ==
  /\ LexicalAnswered
  /\ searchRequest.topK >= 1
  /\ Len(ReadyRows) > searchRequest.topK
  /\ searchContext.results # <<>>
  /\ \A j \in DOMAIN ReadyRows : lexicalScore(ReadyRows[j]) = 0

\* A search by embedding whose query was embedded and whose select was
\* answered.
HybridAnswered ==
  searchRequest.regime = "hybrid" /\ searchRequest.fetched

\* The score the search by embedding gives a row.
hybridScore(row) ==
  combinedScore(vectorScore(row, searchRequest.queryEmbedding),
                keywordScore(searchRequest.query, row.content))

\* The rows of ready documents as results, in descending score order, the
\* ones at or under the floor left out.
RankedAboveFloor ==
  SelectSeq(sortByScore([j \in DOMAIN ReadyRows |->
                           [chunkId |-> <<ReadyRows[j].documentId,
                                          ReadyRows[j].chunkIndex>>,
                            documentId |-> ReadyRows[j].documentId,
                            content |-> ReadyRows[j].content,
                            score |-> hybridScore(ReadyRows[j])]]),
            LAMBDA r : r.score > SCORE_FLOOR)

\* C24: in the hybrid regime the results of hybridSearch are exactly the
\* first topK chunks, in descending score order, among the chunks whose
\* composite score 0.7*vectorScore + 0.3*min(0.1*matchingTermCount, 0.3)
\* is greater than 0.1: the floor applied before the truncation gives the
\* list the code gets by applying it after, and no returned result has a
\* score <= 0.1.
C24_FloorBeforeOrAfterTruncation ==
  HybridAnswered =>
    /\ searchContext.results = slice(RankedAboveFloor, searchRequest.topK)
    /\ \A k \in DOMAIN searchContext.results :
         searchContext.results[k].score > SCORE_FLOOR

\* The embedding column of the row gives no vector to compare with the
\* one of the query: null, unparseable, or of another length.
NoUsableEmbedding(row) ==
  \/ row.embedding.kind # "array"
  \/ Len(row.embedding.vector) # Len(searchRequest.queryEmbedding)

\* C29: in the hybrid regime a chunk that has no stored embedding, an
\* unparseable embedding, or an embedding whose length differs from the
\* query embedding is never returned, whatever its keyword overlap: its
\* vector score is 0 and its composite score is at most 0.3*0.3 = 0.09,
\* which is below the 0.1 floor.
C29_ChunkWithoutVectorNeverReturned ==
  HybridAnswered =>
    \A j \in DOMAIN ReadyRows :
      NoUsableEmbedding(ReadyRows[j]) =>
        /\ vectorScore(ReadyRows[j], searchRequest.queryEmbedding) = 0
        /\ hybridScore(ReadyRows[j]) <= 90
        /\ ~Returned(ReadyRows[j])

\* A search by embedding answered with chunks, with room left under topK,
\* while a ready chunk that includes three terms of the query and has no
\* usable embedding stayed out.
C29_Witness ==
  /\ HybridAnswered
  /\ searchContext.results # <<>>
  /\ searchRequest.topK > Len(ReadyRows)
  /\ \E j \in DOMAIN ReadyRows :
       /\ NoUsableEmbedding(ReadyRows[j])
       /\ keywordScore(searchRequest.query, ReadyRows[j].content) = 3
       /\ ~Returned(ReadyRows[j])

\* ------------------------------------------------------------------------
\* cleanSql applied on its own, once and then to its own output
\* ------------------------------------------------------------------------

\* What the provider puts before the statement: nothing, an opening code
\* fence, a sentence.
RawPrefixes ==
  {<<>>, <<"<fence>", "sql", "\n">>, <<"Here", " ", "you", " ", "go", ":", " ">>}

\* The statements: SELECT * FROM products / select count(*) from sales
RawStatements ==
  {<<"SELECT", " ", "*", " ", "FROM", " ", "products">>,
   <<"select", " ", "count", "(", "*", ")", " ", "from", " ", "sales">>}

\* White space between the statement and its terminator.
RawGaps == {<<>>, <<" ">>, <<"\n">>}

\* The terminator, when there is one.
RawTerminators == {<<>>, <<";">>}

\* What follows: nothing, the closing fence, a second statement, a
\* sentence.
RawSuffixes ==
  {<<>>, <<"\n", "<fence>">>,
   <<" ", "SELECT", " ", "1", ";">>,
   <<" ", "hope", " ", "it", " ", "helps">>}

\* The raw outputs of the provider.
RawOutputs ==
  {pre \o stmt \o gap \o term \o post :
     pre \in RawPrefixes, stmt \in RawStatements, gap \in RawGaps,
     term \in RawTerminators, post \in RawSuffixes}

CleanInit ==
  /\ datasets = <<>>
  /\ ChatIdle
  /\ knowledgeDocuments = [d \in DocIds |-> NoDocument]
  /\ documentChunks = <<>>
  /\ KbIdle
  /\ ollamaEnabled = FALSE
  /\ ragModels = DEFAULT_RAG_MODELS
  /\ RagIdle
  /\ StoreIdle
  /\ searchRequest = NoSearch
  /\ fallbackCall = [applied |-> FALSE]
  /\ \E x \in RawOutputs :
       cleanCall = [applied |-> 0, rawSql |-> x, once |-> <<>>,
                    twice |-> <<>>]

\* cleanSql(rawSql)
ApplyCleanSql ==
  /\ cleanCall.applied = 0
  /\ cleanCall' = [cleanCall EXCEPT !.applied = 1,
                                    !.once = cleanSql(cleanCall.rawSql)]
  /\ UNCHANGED <<chatVars, kbVars, ragVars, storeVars, searchRequest,
                 fallbackCall>>

\* cleanSql of what cleanSql returned
ApplyCleanSqlAgain ==
  /\ cleanCall.applied = 1
  /\ cleanCall' = [cleanCall EXCEPT !.applied = 2,
                                    !.twice = cleanSql(cleanCall.once)]
  /\ UNCHANGED <<chatVars, kbVars, ragVars, storeVars, searchRequest,
                 fallbackCall>>

CleanNext == ApplyCleanSql \/ ApplyCleanSqlAgain

CleanSpec == CleanInit /\ [][CleanNext]_vars

\* C25: cleanSql is idempotent: for every raw provider output x,
\* cleanSql(cleanSql(x)) = cleanSql(x), including outputs with white space
\* before the statement terminator, outputs with several statements and
\* outputs with prose around the statement.
C25_CleanSqlIdempotent ==
  cleanCall.applied = 2 => cleanCall.twice = cleanCall.once

\* ------------------------------------------------------------------------
\* The model-management endpoints and PUT /api/ollama/config, arriving
\* while generateRagResponse awaits a provider
\* ------------------------------------------------------------------------

\* ids of the models a management request names.
ManagedIds ==
  {DEFAULT_RAG_MODELS[1].id, DEFAULT_RAG_MODELS[2].id, "added/model"}

\* The arrays PUT /api/rag/models is sent (it checks Array.isArray only):
\* an empty list, one new model, the defaults in the other order, an array
\* holding null.
RagModelBodies ==
  {<<>>,
   <<[id |-> "added/model", enabled |-> TRUE]>>,
   <<DEFAULT_RAG_MODELS[2], DEFAULT_RAG_MODELS[1]>>,
   <<NullModel>>}

\* One knowledge base at rest: document 1 ready with one chunk.
AdminInit ==
  /\ datasets = <<>>
  /\ ChatIdle
  /\ knowledgeDocuments =
       [d \in DocIds |->
          IF d = 1 THEN [status |-> "ready", chunkCount |-> 1,
                         errorMessage |-> NoMessage]
          ELSE NoDocument]
  /\ documentChunks = <<chunkRow(1, 0)>>
  /\ processing =
       [d \in DocIds |->
          IF d = 1 THEN [NotStarted EXCEPT !.pc = "returned", !.chunks = 1]
          ELSE NotStarted]
  /\ deletion = NoDeletion
  /\ searchContext = NoResults
  /\ ollamaEnabled \in BOOLEAN
  /\ ragModels \in RagModelConfigs
  /\ RagIdle
  /\ StoreIdle
  /\ NoCall

\* generateRagResponse awaits the local provider or a cloud model.
Awaiting == ragPc \in {"ollama", "cloud"}

\* ragModels.find(m => m.id === id): the index of the first element with
\* the id, 0 when there is none, -1 when a null element is reached first
\* (m.id throws).
RECURSIVE findModel(_, _, _)
findModel(models, id, i) ==
  IF i > Len(models) THEN 0
  ELSE IF models[i] = NullModel THEN -1
  ELSE IF models[i].id = id THEN i
  ELSE findModel(models, id, i + 1)

\* What the management requests leave alone.
AdminFrame ==
  UNCHANGED <<kbVars, chatVars, storeVars, callVars, ragPc, enabledModels,
              modelIndex, ragResult, providerCalls>>

\* PUT /api/rag/models: setRagModels(models)
SetRagModels(models) ==
  /\ Awaiting
  /\ ragModels' = models
  /\ UNCHANGED ollamaEnabled
  /\ AdminFrame

\* POST /api/rag/models: addRagModel(id, name); a throw of find is
\* answered with status 500.
AddRagModel(id) ==
  /\ Awaiting
  /\ ragModels' = IF findModel(ragModels, id, 1) = 0
                  THEN Append(ragModels, [id |-> id, enabled |-> TRUE])
                  ELSE ragModels
  /\ UNCHANGED ollamaEnabled
  /\ AdminFrame

\* PATCH /api/rag/models/:id/toggle: toggleRagModel(id, enabled)
ToggleRagModel(id, enabled) ==
  /\ Awaiting
  /\ LET i == findModel(ragModels, id, 1)
     IN  ragModels' = IF i > 0
                      THEN [ragModels EXCEPT ![i].enabled = enabled]
                      ELSE ragModels
  /\ UNCHANGED ollamaEnabled
  /\ AdminFrame

\* DELETE /api/rag/models/:id: removeRagModel(id); the filter throws on a
\* null element and the list stays.
RemoveRagModel(id) ==
  /\ Awaiting
  /\ ragModels' = IF filterThrows(ragModels) THEN ragModels
                  ELSE SelectSeq(ragModels, LAMBDA m : m.id # id)
  /\ UNCHANGED ollamaEnabled
  /\ AdminFrame

\* PUT /api/ollama/config: setOllamaConfig(baseUrl, enabled)
SetOllamaConfig(enabled) ==
  /\ Awaiting
  /\ ollamaEnabled' = enabled
  /\ UNCHANGED ragModels
  /\ AdminFrame

AdminNext ==
  \/ \E query \in Queries, fetchOk \in BOOLEAN : RagSearch(query, fetchOk)
  \/ \E reply \in OllamaReplies : OllamaCompletion(reply)
  \/ \E outcome \in CloudOutcomes : CloudCompletion(outcome)
  \/ \E models \in RagModelBodies : SetRagModels(models)
  \/ \E id \in ManagedIds : AddRagModel(id)
  \/ \E id \in ManagedIds, enabled \in BOOLEAN : ToggleRagModel(id, enabled)
  \/ \E id \in ManagedIds : RemoveRagModel(id)
  \/ \E enabled \in BOOLEAN : SetOllamaConfig(enabled)

AdminSpec == AdminInit /\ [][AdminNext]_vars

\* The calls made to cloud models, in the order made.
CloudCalls == SelectSeq(providerCalls, LAMBDA c : c.provider # "ollama")

\* C26: a change of the model list or of the offline flag that arrives
\* while generateRagResponse is running never makes that request throw: the
\* request calls the cloud models that were enabled when it built its
\* candidate list, in the order of that list.
C26_AdminChangeNeverBreaksRunningRequest ==
  /\ ragPc # "threw"
  /\ Len(CloudCalls) <= Len(enabledModels)
  /\ \A i \in 1..Len(CloudCalls) :
       CloudCalls[i].provider = enabledModels[i].id

\* ------------------------------------------------------------------------
\* getFallbackSql and the routing of what it returns
\* ------------------------------------------------------------------------

\* Questions reaching every return of getFallbackSql.
FallbackMessages ==
  Messages \cup
  {<<"revenue">>,
   <<"#maechul", " ", "#chong">>,
   <<"category", " ", "group">>,
   <<"#kategori", " ", "list">>,
   <<"best", " ", "expensive">>,
   <<"top", " ", "cheap">>,
   <<"#gajang", " ", "#pallin">>,
   <<"product", "s">>,
   <<"dataset", "_", "1", "_", "sales", " ", "total">>}

\* Names of uploaded files.
FileNames == {<<"sales">>, <<"Product", "s">>, <<"#maechul">>}

\* Ids of the datasets with an analytic table.
TableIds == {1, 2}

\* The names createDatasetTable gives the analytic tables.
TableNames ==
  {sanitizeTableName(name, id) : name \in FileNames, id \in TableIds}

\* The lists of known analytic tables: none, one, two of different
\* datasets.
TableLists ==
  {<<>>} \cup {<<t>> : t \in TableNames}
    \cup {<<t, u>> : t \in {sanitizeTableName(name, 1) : name \in FileNames},
                     u \in {sanitizeTableName(name, 2) : name \in FileNames}}

FallbackInit ==
  /\ datasets = <<>>
  /\ ChatIdle
  /\ knowledgeDocuments = [d \in DocIds |-> NoDocument]
  /\ documentChunks = <<>>
  /\ KbIdle
  /\ ollamaEnabled = FALSE
  /\ ragModels = DEFAULT_RAG_MODELS
  /\ RagIdle
  /\ StoreIdle
  /\ searchRequest = NoSearch
  /\ cleanCall = [applied |-> 0]
  /\ \E m \in FallbackMessages, tables \in TableLists :
       fallbackCall = [applied |-> FALSE, message |-> m,
                       duckdbTables |-> tables, sql |-> <<>>,
                       table |-> Null]

\* getFallbackSql(message), and pickDuckdbTableFromSql of the query it
\* returns
ApplyFallback ==
  /\ ~fallbackCall.applied
  /\ LET sqlText == getFallbackSql(fallbackCall.message)
     IN  fallbackCall' =
           [fallbackCall EXCEPT
              !.applied = TRUE,
              !.sql = sqlText,
              !.table = pickDuckdbTableFromSql(sqlText,
                                               fallbackCall.duckdbTables)]
  /\ UNCHANGED <<chatVars, kbVars, ragVars, storeVars, searchRequest,
                 cleanCall>>

FallbackNext == ApplyFallback

FallbackSpec == FallbackInit /\ [][FallbackNext]_vars

\* C27: every query getFallbackSql returns begins with SELECT and is routed
\* to the relational engine (pickDuckdbTableFromSql finds no analytic
\* table in it), for every message and every list of known analytic tables
\* named by sanitizeTableName.
C27_FallbackIsRelationalSelect ==
  fallbackCall.applied =>
    /\ startsWithSelect(fallbackCall.sql)
    /\ fallbackCall.table = Null

\* The fallback query reads sales while the analytic table of a file named
\* sales is known.
C27_Witness ==
  /\ fallbackCall.applied
  /\ fallbackCall.sql = SQL_TOTAL_SALES
  /\ \E i \in DOMAIN fallbackCall.duckdbTables :
       fallbackCall.duckdbTables[i] = sanitizeTableName(<<"sales">>, 1)
  /\ fallbackCall.table = Null

\* ------------------------------------------------------------------------
\* The query texts of the retries of one request
\* ------------------------------------------------------------------------

\* C28: within one request every retry executes a query text that differs
\* from the text whose execution just failed, whether the retry runs an
\* adopted repair or a substituted fallback.
C28_RetryDiffersFromFailedQuery ==
  \A i \in Executions :
    (i > 1 /\ ~execLog[i - 1].ok) => execLog[i].sql # execLog[i - 1].sql

\* ------------------------------------------------------------------------
\* Searches after the deletion of a document
\* ------------------------------------------------------------------------

\* The id was given to an upload and the row is gone: the DELETE of the
\* document has completed (ids are serial, never given out twice).
Deleted(docId) == processing[docId].pc # "none" /\ ~Exists(docId)

\* C30: once DELETE /api/knowledge-base/documents/:id has completed, no
\* search returns a chunk of that document and no chunk of it is left in
\* the store for a later search to find, also when processDocument of the
\* document is still at its inserts.
C30_DeletedDocumentNeverReturned ==
  \A docId \in DocIds :
    Deleted(docId) =>
      /\ \A k \in DOMAIN searchContext.results :
           searchContext.results[k].documentId # docId
      /\ StoredChunks(docId) = <<>>

\* A search answered with chunks after the deletion of a document whose
\* processDocument still awaits an insert.
C30_Witness ==
  /\ searchContext.results # <<>>
  /\ \E docId \in DocIds :
       /\ Deleted(docId)
       /\ processing[docId].pc = "insert"

====
